---------------------------- MODULE Spec2Model ----------------------------
(* A model of the traceleft metagenerator (src/metagenerator/metagenerator.go): *)
(* the FD identity tracker (FdMap), the generated GetStruct decoder, the      *)
(* type mapping tables and the schema compiler (parseLine / parseSyscall).    *)
EXTENDS Integers, Sequences, FiniteSets, TLC

VARIABLES
    items,      \* FdMap.items : pid -> fd -> FdInfo (nested Go maps)
    hist,       \* ghost: per (pid, fd), the info of the latest Put not yet undone
    last,       \* the most recent call on the tracker and what it returned
    mu,         \* FdMap's embedded sync.RWMutex: who holds it
    threads,    \* the goroutines calling the tracker concurrently: where each is
    input,      \* what a pure function of the generator is applied to
    output,     \* what it returned
    decoding    \* the GetStruct call each goroutine is in, and how far it came

vars == <<items, hist, last, mu, threads, input, output, decoding>>

-----------------------------------------------------------------------------
(* Values *)

\* an unsigned or signed integer of w bytes is the sequence of its w bytes, least
\* significant first, as binary.LittleEndian lays it out; n is below 65536
Zeros8 == <<0, 0, 0, 0, 0, 0, 0, 0>>

Zeros64 == Zeros8 \o Zeros8 \o Zeros8 \o Zeros8 \o Zeros8 \o Zeros8 \o Zeros8 \o Zeros8

Zeros256 == Zeros64 \o Zeros64 \o Zeros64 \o Zeros64

\* n zero bytes, n <= 256
Zeros(n) == SubSeq(Zeros256, 1, n)

Word(n, w) == SubSeq(<<n % 256, n \div 256>> \o Zeros8, 1, w)

W32(n) == Word(n, 4)

W64(n) == Word(n, 8)

\* uint32(x) of a 64-bit x
U32(x) == SubSeq(x, 1, 4)

\* x >> 8 of a uint64
Shr8(x) == Tail(x) \o <<0>>

\* x & 0xff of a uint64
And255(x) == <<x[1]>> \o Zeros(7)

\* process ids and descriptor numbers of the events
PidValues == {100, 101}

FdValues == {5, 6}

Pids == {W32(p) : p \in PidValues}

Fds == {W32(f) : f \in FdValues}

\* the files of the model: file i has the path PathOf(i), inode i and device (i, i)
Files == {0, 1}

\* a string whose characters the code inspects is a sequence of one-character strings
PathOf(i) == IF i = 0 THEN <<"/","a">> ELSE <<"/","b">>

\* type FdInfo struct { Path; Ino; Major; Minor }
MkFdInfo(p, i, ma, mi) == [Path |-> p, Ino |-> W64(i), Major |-> W64(ma), Minor |-> W64(mi)]

\* the identity recorded for each file
Infos == {MkFdInfo(PathOf(i), i, i, i) : i \in Files}

\* the most descriptors the model tracks at once
MaxTracked == 2

\* the zero value of FdInfo
ZeroInfo == [Path |-> <<>>, Ino |-> W64(0), Major |-> W64(0), Minor |-> W64(0)]

-----------------------------------------------------------------------------
(* FdMap *)

\* make(map[uint32]FdInfo)
EmptyInner == [fd \in {} |-> ZeroInfo]

\* make(map[uint32]map[uint32]FdInfo)
NewFdMap == [pid \in {} |-> EmptyInner]

\* func (f *FdMap) Get(pid, fd uint32) (*FdInfo, bool)
Get(its, pid, fd) ==
    IF pid \notin DOMAIN its
    THEN [isNil |-> TRUE, info |-> ZeroInfo, ok |-> FALSE]
    ELSE LET inner == its[pid] IN
         IF fd \in DOMAIN inner
         THEN [isNil |-> FALSE, info |-> inner[fd], ok |-> TRUE]
         ELSE [isNil |-> FALSE, info |-> ZeroInfo, ok |-> FALSE]

\* Put, lines 85-87: if _, ok := f.items[pid]; !ok { f.items[pid] = make(...) }
PutAlloc(its, pid) ==
    IF pid \in DOMAIN its
    THEN its
    ELSE [p \in DOMAIN its \cup {pid} |-> IF p = pid THEN EmptyInner ELSE its[p]]

\* a faulty PutStore that keeps the info already stored under the key
PutStoreKeepsOld(its, pid, fd, info) ==
    [its EXCEPT ![pid] =
        [k \in DOMAIN @ \cup {fd} |-> IF k \in DOMAIN @ THEN @[k] ELSE info]]

\* Put, line 89: f.items[pid][fd] = info
PutStore(its, pid, fd, info) ==
    [its EXCEPT ![pid] =
        [k \in DOMAIN @ \cup {fd} |-> IF k = fd THEN info ELSE @[k]]]

\* func (f *FdMap) Put(pid, fd uint32, info FdInfo)
Put(its, pid, fd, info) == PutStore(PutAlloc(its, pid), pid, fd, info)

\* func (f *FdMap) Delete(pid, fd uint32)
Delete(its, pid, fd) ==
    IF pid \in DOMAIN its
    THEN [its EXCEPT ![pid] = [k \in DOMAIN @ \ {fd} |-> @[k]]]
    ELSE its

\* a faulty DeletePid that drops the descriptors of every pid
DeletePidClears(its, pid) == [p \in {} |-> EmptyInner]

\* func (f *FdMap) DeletePid(pid uint32)
DeletePid(its, pid) == [p \in DOMAIN its \ {pid} |-> its[p]]

\* func (f *FdMap) Clear()
Clear(its) == NewFdMap

-----------------------------------------------------------------------------
(* Type mapping tables *)

\* const maxBufferSize = 256
maxBufferSize == 256

\* the entries of protoTypeConversions, as <<decoder type, wire type>>
protoPairs ==
    {<<"BpfAttr", "todo">>,
     <<"CapUserData", "todo">>,
     <<"CapUserHeader", "todo">>,
     <<"FileHandle", "todo">>,
     <<"GetCPUCache", "todo">>,
     <<"IoCb", "todo">>,
     <<"IoEvent", "todo">>,
     <<"Itimerspec", "todo">>,
     <<"KexecSegment", "todo">>,
     <<"MqAttr", "todo">>,
     <<"Msgbuf", "todo">>,
     <<"Pollfd", "todo">>,
     <<"RobustListHead", "todo">>,
     <<"SigSet", "todo">>,
     <<"Sigaction", "todo">>,
     <<"Sigevent", "todo">>,
     <<"Stack", "todo">>,
     <<"SysctlArgs", "todo">>,
     <<"Timezone", "todo">>,
     <<"[256]byte", "bytes">>,
     <<"[]IoCb", "todo">>,
     <<"[]RobustListHead", "todo">>,
     <<"int16", "int32">>,
     <<"int32", "int32">>,
     <<"int64", "int64">>,
     <<"syscall.Dirent", "todo">>,
     <<"syscall.EpollEvent", "todo">>,
     <<"syscall.FdSet", "todo">>,
     <<"syscall.Iovec", "todo">>,
     <<"syscall.Msghdr", "todo">>,
     <<"syscall.Rlimit", "todo">>,
     <<"syscall.Rusage", "todo">>,
     <<"syscall.Sockaddr", "todo">>,
     <<"syscall.Stat_t", "todo">>,
     <<"syscall.Statfs_t", "todo">>,
     <<"syscall.Sysinfo_t", "todo">>,
     <<"syscall.Timespec", "todo">>,
     <<"syscall.Timeval", "todo">>,
     <<"syscall.Timex", "todo">>,
     <<"syscall.Tms", "todo">>,
     <<"syscall.Ustat_t", "todo">>,
     <<"syscall.Utimbuf", "todo">>,
     <<"syscall.Utsname", "todo">>,
     <<"uint16", "uint32">>,
     <<"uint32", "uint32">>,
     <<"uint64", "uint64">>,
     <<"unsafe.Pointer", "todo">>}
\* the entries of goTypeConversions, as <<kernel type, decoder type>>
goPairs ==
    {<<"aio_context_t *", "uint64">>,
     <<"aio_context_t", "uint64">>,
     <<"cap_user_data_t", "CapUserData">>,
     <<"cap_user_header_t", "CapUserHeader">>,
     <<"char *", "[256]byte">>,
     <<"const cap_user_data_t", "CapUserData">>,
     <<"const char *", "[256]byte">>,
     <<"const clockid_t", "uint32">>,
     <<"const int *", "int64">>,
     <<"const sigset_t *", "SigSet">>,
     <<"const stack_t *", "Stack">>,
     <<"const struct iovec *", "syscall.Iovec">>,
     <<"const struct itimerspec *", "Itimerspec">>,
     <<"const struct mq_attr *", "MqAttr">>,
     <<"const struct rlimit64 *", "syscall.Rlimit">>,
     <<"const struct sigaction *", "Sigaction">>,
     <<"const struct sigevent *", "Sigevent">>,
     <<"const struct timespec *", "syscall.Timespec">>,
     <<"const unsigned long *", "uint64">>,
     <<"const void * *", "unsafe.Pointer">>,
     <<"const void *", "unsafe.Pointer">>,
     <<"fd_set *", "syscall.FdSet">>,
     <<"gid_t *", "uint64">>,
     <<"gid_t", "uint32">>,
     <<"int *", "int64">>,
     <<"int", "int64">>,
     <<"key_serial_t", "int32">>,
     <<"key_t", "int64">>,
     <<"loff_t *", "int64">>,
     <<"loff_t", "int64">>,
     <<"long", "int64">>,
     <<"mqd_t", "int64">>,
     <<"off_t", "int64">>,
     <<"pid_t", "int64">>,
     <<"qid_t", "uint32">>,
     <<"__s32", "uint32">>,
     <<"siginfo_t *", "unsafe.Pointer">>,
     <<"sigset_t *", "SigSet">>,
     <<"size_t *", "int64">>,
     <<"size_t", "int64">>,
     <<"stack_t *", "Stack">>,
     <<"struct epoll_event *", "syscall.EpollEvent">>,
     <<"struct file_handle *", "FileHandle">>,
     <<"struct getcpu_cache *", "GetCPUCache">>,
     <<"struct iocb * *", "IoCb">>,
     <<"struct iocb *", "[]IoCb">>,
     <<"struct io_event *", "IoEvent">>,
     <<"struct itimerspec *", "Itimerspec">>,
     <<"struct itimerval *", "Itimerspec">>,
     <<"struct kexec_segment *", "KexecSegment">>,
     <<"struct linux_dirent64 *", "syscall.Dirent">>,
     <<"struct linux_dirent *", "syscall.Dirent">>,
     <<"struct mmsghdr *", "syscall.Msghdr">>,
     <<"struct mq_attr *", "MqAttr">>,
     <<"struct msgbuf *", "Msgbuf">>,
     <<"struct msqid_ds *", "unsafe.Pointer">>,
     <<"struct new_utsname *", "syscall.Utsname">>,
     <<"struct perf_event_attr *", "unsafe.Pointer">>,
     <<"struct pollfd *", "Pollfd">>,
     <<"struct rlimit64 *", "syscall.Rlimit">>,
     <<"struct rlimit *", "syscall.Rlimit">>,
     <<"struct robust_list_head * *", "[]RobustListHead">>,
     <<"struct robust_list_head *", "RobustListHead">>,
     <<"struct rusage *", "syscall.Rusage">>,
     <<"struct sched_attr *", "unsafe.Pointer">>,
     <<"struct sched_param *", "unsafe.Pointer">>,
     <<"struct sembuf *", "unsafe.Pointer">>,
     <<"struct shmid_ds *", "unsafe.Pointer">>,
     <<"struct sigaction *", "unsafe.Pointer">>,
     <<"struct sigevent *", "unsafe.Pointer">>,
     <<"struct siginfo *", "unsafe.Pointer">>,
     <<"struct sockaddr *", "syscall.Sockaddr">>,
     <<"struct stat *", "syscall.Stat_t">>,
     <<"struct statfs *", "syscall.Statfs_t">>,
     <<"struct __sysctl_args *", "SysctlArgs">>,
     <<"struct sysinfo *", "syscall.Sysinfo_t">>,
     <<"struct timespec *", "syscall.Timespec">>,
     <<"struct timeval *", "syscall.Timeval">>,
     <<"struct timex *", "syscall.Timex">>,
     <<"struct timezone *", "Timezone">>,
     <<"struct tms *", "syscall.Tms">>,
     <<"struct user_msghdr *", "unsafe.Pointer">>,
     <<"struct ustat *", "syscall.Ustat_t">>,
     <<"struct utimbuf *", "syscall.Utimbuf">>,
     <<"timer_t *", "int64">>,
     <<"timer_t", "int64">>,
     <<"time_t *", "int64">>,
     <<"u32 *", "uint32">>,
     <<"u32", "uint32">>,
     <<"u64", "uint64">>,
     <<"__u64", "uint64">>,
     <<"uid_t *", "uint64">>,
     <<"uid_t", "uint32">>,
     <<"umode_t", "uint64">>,
     <<"union bpf_attr *", "BpfAttr">>,
     <<"unsigned char *", "[256]byte">>,
     <<"unsigned *", "uint64">>,
     <<"unsigned", "uint64">>,
     <<"unsigned int *", "uint64">>,
     <<"unsigned int", "uint64">>,
     <<"unsigned long *", "uint64">>,
     <<"unsigned long", "uint64">>,
     <<"void *", "unsafe.Pointer">>}
\* the entries of cTypeConversions, as <<kernel type, kernel-record type>>
cPairs ==
    {<<"aio_context_t *", "u64">>,
     <<"aio_context_t", "aio_context_t">>,
     <<"cap_user_data_t", "cap_user_data_t">>,
     <<"cap_user_header_t", "cap_user_header_t">>,
     <<"char *", "char">>,
     <<"const cap_user_data_t", "cap_user_data_t">>,
     <<"const char *", "char">>,
     <<"const clockid_t", "u32">>,
     <<"const int *", "s64">>,
     <<"const sigset_t *", "u64">>,
     <<"const stack_t *", "u64">>,
     <<"const struct iovec *", "u64">>,
     <<"const struct itimerspec *", "u64">>,
     <<"const struct mq_attr *", "u64">>,
     <<"const struct rlimit64 *", "u64">>,
     <<"const struct sigaction *", "u64">>,
     <<"const struct sigevent *", "u64">>,
     <<"const struct timespec *", "u64">>,
     <<"const unsigned long *", "u64">>,
     <<"const void * *", "u64">>,
     <<"const void *", "u64">>,
     <<"fd_set *", "u64">>,
     <<"gid_t *", "u64">>,
     <<"gid_t", "gid_t">>,
     <<"int *", "u64">>,
     <<"int", "s64">>,
     <<"key_serial_t", "key_serial_t">>,
     <<"key_t", "key_t">>,
     <<"loff_t *", "s64">>,
     <<"loff_t", "loff_t">>,
     <<"long", "s64">>,
     <<"mqd_t", "mdq_t">>,
     <<"off_t", "off_t">>,
     <<"pid_t", "pid_t">>,
     <<"qid_t", "qid_t">>,
     <<"__s32", "s32">>,
     <<"siginfo_t *", "u64">>,
     <<"sigset_t *", "u64">>,
     <<"size_t *", "u64">>,
     <<"size_t", "int64_t">>,
     <<"stack_t *", "u64">>,
     <<"struct epoll_event *", "u64">>,
     <<"struct file_handle *", "u64">>,
     <<"struct getcpu_cache *", "u64">>,
     <<"struct iocb * *", "u64">>,
     <<"struct iocb *", "u64">>,
     <<"struct io_event *", "u64">>,
     <<"struct itimerspec *", "u64">>,
     <<"struct itimerval *", "u64">>,
     <<"struct kexec_segment *", "u64">>,
     <<"struct linux_dirent64 *", "u64">>,
     <<"struct linux_dirent *", "u64">>,
     <<"struct mmsghdr *", "u64">>,
     <<"struct mq_attr *", "u64">>,
     <<"struct msgbuf *", "u64">>,
     <<"struct msqid_ds *", "u64">>,
     <<"struct new_utsname *", "u64">>,
     <<"struct perf_event_attr *", "u64">>,
     <<"struct pollfd *", "u64">>,
     <<"struct rlimit64 *", "u64">>,
     <<"struct rlimit *", "u64">>,
     <<"struct robust_list_head * *", "u64">>,
     <<"struct robust_list_head *", "u64">>,
     <<"struct rusage *", "u64">>,
     <<"struct sched_attr *", "u64">>,
     <<"struct sched_param *", "u64">>,
     <<"struct sembuf *", "u64">>,
     <<"struct shmid_ds *", "u64">>,
     <<"struct sigaction *", "u64">>,
     <<"struct sigevent *", "u64">>,
     <<"struct siginfo *", "u64">>,
     <<"struct sockaddr *", "u64">>,
     <<"struct stat *", "u64">>,
     <<"struct statfs *", "u64">>,
     <<"struct __sysctl_args *", "u64">>,
     <<"struct sysinfo *", "u64">>,
     <<"struct timespec *", "u64">>,
     <<"struct timeval *", "u64">>,
     <<"struct timex *", "u64">>,
     <<"struct timezone *", "u64">>,
     <<"struct tms *", "u64">>,
     <<"struct user_msghdr *", "u64">>,
     <<"struct ustat *", "u64">>,
     <<"struct utimbuf *", "u64">>,
     <<"timer_t *", "u64">>,
     <<"timer_t", "timer_t">>,
     <<"time_t *", "u64">>,
     <<"u32 *", "s64">>,
     <<"u32", "u32">>,
     <<"u64", "u64">>,
     <<"__u64", "u64">>,
     <<"uid_t *", "u64">>,
     <<"uid_t", "uid_t">>,
     <<"umode_t", "u64">>,
     <<"union bpf_attr *", "u64">>,
     <<"unsigned char *", "char">>,
     <<"unsigned *", "u64">>,
     <<"unsigned", "unsigned">>,
     <<"unsigned int *", "u64">>,
     <<"unsigned int", "u64">>,
     <<"unsigned long *", "u64">>,
     <<"unsigned long", "unsigned long">>,
     <<"void *", "u64">>}

\* a Go map[string]string built from its entries
MapOf(pairs) ==
    [k \in {p[1] : p \in pairs} |-> (CHOOSE p \in pairs : p[1] = k)[2]]

protoTypeConversions == MapOf(protoPairs)

goTypeConversions == MapOf(goPairs)

cTypeConversions == MapOf(cPairs)

\* m[k] on a Go map[string]string: the zero value "" for a missing key
Lookup(m, k) == IF k \in DOMAIN m THEN m[k] ELSE ""

-----------------------------------------------------------------------------
(* Schema compiler *)

LowerLetters ==
    <<"a","b","c","d","e","f","g","h","i","j","k","l","m",
      "n","o","p","q","r","s","t","u","v","w","x","y","z">>

UpperLetters ==
    <<"A","B","C","D","E","F","G","H","I","J","K","L","M",
      "N","O","P","Q","R","S","T","U","V","W","X","Y","Z">>

Digits == {"0","1","2","3","4","5","6","7","8","9"}

IsLower(v) == \E i \in 1..26 : LowerLetters[i] = v

IsUpper(v) == \E i \in 1..26 : UpperLetters[i] = v

\* strings.ToUpper(string(v)) for v in 'a'..'z'
ToUpper(v) == UpperLetters[CHOOSE i \in 1..26 : LowerLetters[i] = v]

RECURSIVE TrimLeft(_)
TrimLeft(s) == IF s # <<>> /\ Head(s) = " " THEN TrimLeft(Tail(s)) ELSE s

RECURSIVE TrimRight(_)
TrimRight(s) ==
    IF s # <<>> /\ s[Len(s)] = " " THEN TrimRight(SubSeq(s, 1, Len(s) - 1)) ELSE s

\* strings.Trim(s, " ")
Trim(s) == TrimRight(TrimLeft(s))

\* the body of ToCamel's loop, from position i with the state (n, capNext)
RECURSIVE CamelLoop(_, _, _, _)
CamelLoop(s, i, n, capNext) ==
    IF i > Len(s) THEN n
    ELSE LET v == s[i]
             n1 == IF IsUpper(v) \/ v \in Digits THEN Append(n, v) ELSE n
             n2 == IF IsLower(v)
                   THEN (IF capNext THEN Append(n1, ToUpper(v)) ELSE Append(n1, v))
                   ELSE n1
         IN CamelLoop(s, i + 1, n2, v = "_" \/ v = " ")

\* func ToCamel(s string) string
ToCamel(s) == CamelLoop(Trim(s), 1, <<>>, TRUE)

\* a line of a format file: empty, a line the pattern re does not match, or a
\* line "\tfield:<type> <name>;..." with its two groups
BlankLine == [kind |-> "blank", type |-> "", name |-> <<>>]

TextLine == [kind |-> "text", type |-> "", name |-> <<>>]

FieldLine(t, n) == [kind |-> "field", type |-> t, name |-> n]

\* re.FindAllStringSubmatch(l, -1): the matches, each with its named groups
FindAllStringSubmatch(l) ==
    IF l.kind = "field" THEN <<[type |-> l.type, name |-> l.name]>> ELSE <<>>

\* type Param struct
MkParam(pos, n, t, sfx, np) ==
    [Position |-> pos, Name |-> n, Type |-> t, Suffix |-> sfx, HashFunc |-> "",
     NeedsPath |-> np]

NoParams == [go |-> <<>>, c |-> <<>>, proto |-> <<>>, err |-> FALSE]

\* a faulty test that misses the directory descriptors
IsFdNameOnlyFd(goName) == goName = <<"F","d">>

\* parseLine, lines 1026-1028: goParam.Name == "Fd" || goParam.Name == "Dfd"
IsFdName(goName) == goName = <<"F","d">> \/ goName = <<"D","f","d">>

\* func parseLine(l string, idx int) (*Param, *Param, *Param, error): each
\* returned pointer is a sequence holding no (nil) or one Param
parseLine(l, idx) ==
    LET r == FindAllStringSubmatch(l) IN
    IF Len(r) = 0 THEN NoParams
    ELSE LET mp == r[1] IN
         IF mp.name = <<"_","_","s","y","s","c","a","l","l","_","n","r">>
         THEN NoParams
         ELSE LET goName == ToCamel(mp.name)
                  goType == Lookup(goTypeConversions, mp.type)
                  cType == Lookup(cTypeConversions, mp.type)
              IN [go |-> <<MkParam(0, goName, goType, "", IsFdName(goName))>>,
                  c |-> <<MkParam(idx - 8, mp.name, cType,
                                  IF cType = "char" THEN "[256]" ELSE "", FALSE)>>,
                  proto |-> <<MkParam(0, mp.name,
                                      Lookup(protoTypeConversions, goType), "", FALSE)>>,
                  err |-> FALSE]

\* faulty appends that put the decoder parameter of a line first
AppendParamsGoFirst(acc, pl) ==
    [go |-> pl.go \o acc.go, c |-> acc.c \o pl.c, proto |-> acc.proto \o pl.proto,
     err |-> pl.err]

\* parseSyscall, lines 1073-1081: the three appends of one line's parameters
AppendParams(acc, pl) ==
    [go |-> acc.go \o pl.go, c |-> acc.c \o pl.c, proto |-> acc.proto \o pl.proto,
     err |-> pl.err]

\* the loop of parseSyscall over syscallParts, from the 0-based index idx
RECURSIVE ParseLoop(_, _, _, _)
ParseLoop(parts, idx, skipped, acc) ==
    IF idx >= Len(parts) \/ acc.err THEN acc
    ELSE IF ~skipped /\ parts[idx + 1].kind # "blank"
         THEN ParseLoop(parts, idx + 1, FALSE, acc)
         ELSE ParseLoop(parts, idx + 1, TRUE,
                        AppendParams(acc, parseLine(parts[idx + 1], idx)))

EventSuffix == <<"E","v","e","n","t">>

\* type Syscall struct
MkSyscall(n, raw, params) == [Name |-> n, RawName |-> raw, Params |-> params]

\* parseSyscall, lines 1084-1098: the three schemas returned, camel being
\* ToCamel(name) and acc the parameters gathered
Schemas(name, camel, acc) ==
    [go |-> MkSyscall(camel \o EventSuffix, name, acc.go),
     c |-> MkSyscall(name, name, acc.c),
     proto |-> MkSyscall(<<"P","r","o","t","o","b","u","f">> \o camel \o EventSuffix, name,
                         acc.proto),
     err |-> acc.err]

\* func parseSyscall(name, format string) (*Syscall, *Syscall, *Syscall, error)
parseSyscall(name, format) ==
    Schemas(name, ToCamel(name), ParseLoop(format, 0, FALSE, NoParams))

-----------------------------------------------------------------------------
(* Schemas of the traced syscalls *)

s_syscall_nr == <<"_","_","s","y","s","c","a","l","l","_","n","r">>

\* the text of /sys/kernel/debug/tracing/events/syscalls/sys_enter_<x>/format,
\* split at "\n", for a syscall with the given <<type, name>> fields
KernelFormat(fields) ==
    <<TextLine, TextLine, TextLine,
      FieldLine("unsigned short", <<"c","o","m","m","o","n","_","t","y","p","e">>),
      FieldLine("unsigned char", <<"c","o","m","m","o","n","_","f","l","a","g","s">>),
      FieldLine("unsigned char", <<"c","o","m","m","o","n","_","p","r","e","e","m","p","t",
                                   "_","c","o","u","n","t">>),
      FieldLine("int", <<"c","o","m","m","o","n","_","p","i","d">>),
      BlankLine,
      FieldLine("int", s_syscall_nr)>>
    \o [i \in 1..Len(fields) |-> FieldLine(fields[i][1], fields[i][2])]
    \o <<BlankLine, TextLine>>

n_open == <<"o","p","e","n">>

n_close == <<"c","l","o","s","e">>

n_fchmodat == <<"f","c","h","m","o","d","a","t">>

f_fd == <<"unsigned int", <<"f","d">>>>

f_dfd == <<"int", <<"d","f","d">>>>

f_filename == <<"const char *", <<"f","i","l","e","n","a","m","e">>>>

f_pathname == <<"const char *", <<"p","a","t","h","n","a","m","e">>>>

f_mode == <<"umode_t", <<"m","o","d","e">>>>

f_user == <<"uid_t", <<"u","s","e","r">>>>

f_group == <<"gid_t", <<"g","r","o","u","p">>>>

f_count == <<"size_t", <<"c","o","u","n","t">>>>

\* var consideredSyscalls, each with the fields the kernel declares for it
consideredSyscalls ==
    <<<<n_open, <<f_filename, <<"int", <<"f","l","a","g","s">>>>, f_mode>>>>,
      <<n_close, <<f_fd>>>>,
      <<<<"r","e","a","d">>, <<f_fd, <<"char *", <<"b","u","f">>>>, f_count>>>>,
      <<<<"w","r","i","t","e">>, <<f_fd, <<"const char *", <<"b","u","f">>>>, f_count>>>>,
      <<<<"m","k","d","i","r">>, <<f_pathname, f_mode>>>>,
      <<<<"m","k","d","i","r","a","t">>, <<f_dfd, f_pathname, f_mode>>>>,
      <<<<"c","h","m","o","d">>, <<f_filename, f_mode>>>>,
      <<<<"f","c","h","m","o","d">>, <<f_fd, f_mode>>>>,
      <<n_fchmodat, <<f_dfd, f_filename, f_mode>>>>,
      <<<<"c","h","o","w","n">>, <<f_filename, f_user, f_group>>>>,
      <<<<"f","c","h","o","w","n">>, <<f_fd, f_user, f_group>>>>,
      <<<<"f","c","h","o","w","n","a","t">>, <<f_dfd, f_filename, f_user, f_group,
                      <<"int", <<"f","l","a","g">>>>>>>>>>

\* the walk of GatherSyscalls over the considered syscalls from the i-th on
RECURSIVE Walk(_)
Walk(i) ==
    IF i > Len(consideredSyscalls) THEN <<>>
    ELSE <<parseSyscall(consideredSyscalls[i][1], KernelFormat(consideredSyscalls[i][2]))>>
         \o Walk(i + 1)

\* func GatherSyscalls(): the three schemas of every considered syscall
GatherSyscalls == Walk(1)

RECURSIVE GoOf(_)
GoOf(scs) == IF scs = <<>> THEN <<>> ELSE <<Head(scs).go>> \o GoOf(Tail(scs))

\* the decoder schemas GenerateGoStructs renders GetStruct from
goSyscalls == GoOf(GatherSyscalls)

RECURSIVE COf(_)
COf(scs) == IF scs = <<>> THEN <<>> ELSE <<Head(scs).c>> \o COf(Tail(scs))

\* the kernel-record schemas GenerateBpfSources renders the probes from
cSyscalls == COf(GatherSyscalls)

\* the schema of scs with the raw name
SchemaOf(scs, name) == scs[CHOOSE i \in 1..Len(scs) : scs[i].RawName = name]

\* the raw names of the schemas scs: the cases the template renders
RawNames(scs) == {scs[i].RawName : i \in 1..Len(scs)}

SyscallNames == RawNames(goSyscalls)

\* the schema has a descriptor field
HasFdField(sc) == \E k \in 1..Len(sc.Params) : sc.Params[k].NeedsPath

\* the raw names of the schemas of scs with a descriptor field
WithFdField(scs) == {scs[i].RawName : i \in {j \in 1..Len(scs) : HasFdField(scs[j])}}

\* the syscalls with a descriptor field
FdSyscallNames == WithFdField(goSyscalls)

\* the index of the descriptor field of a schema with one
FdFieldOf(sc) == CHOOSE k \in 1..Len(sc.Params) : sc.Params[k].NeedsPath

\* the index of the descriptor field of a syscall with one
FdIndex(name) == FdFieldOf(SchemaOf(goSyscalls, name))

-----------------------------------------------------------------------------
(* The generated decoder *)

Min(x, y) == IF x > y THEN y ELSE x

\* (*bytes.Buffer).Next(n): the next n bytes, or all of them when fewer remain
BufNext(buf, n) == SubSeq(buf, 1, Min(n, Len(buf)))

\* the buffer after Next(n)
Advance(buf, n) == SubSeq(buf, Min(n, Len(buf)) + 1, Len(buf))

s_unknown == <<"u","n","k","n","o","w","n">>

\* fmt.Sprintf("[deleted] (%q)?", path), for a path of plain characters
DeletedName(path) == <<"[","d","e","l","e","t","e","d","]"," ","(","\"">> \o path \o <<"\"",")","?">>

\* syscall.Stat on /proc/<pid>/root/<path>: err is "nil", "ENOENT" or another
\* errno, Ino and Dev are the fields of Stat_t the code reads, and a failed call
\* leaves the zero Stat_t; major and minor are the device numbers of the file
\* that answered, which the kernel packs into Dev
StatOk(ino, major, minor) ==
    [err |-> "nil", Ino |-> W64(ino), Dev |-> W64(major * 256 + minor),
     major |-> major, minor |-> minor]

StatErr(e) == [err |-> e, Ino |-> W64(0), Dev |-> W64(0), major |-> 0, minor |-> 0]

NoStat == StatErr("")

StatResults ==
    {StatOk(i, ma, mi) : i \in Files, ma \in Files, mi \in Files}
    \cup {StatErr("ENOENT"), StatErr("EACCES")}

\* a faulty ResolvePath that does not compare the minor number
ResolvePathIgnoresMinor(its, pid, fd, stat) ==
    LET r == Get(its, pid, fd)
        info == r.info
    IN IF ~r.ok THEN s_unknown
       ELSE IF info.Ino = stat.Ino /\ info.Major = Shr8(stat.Dev)
            THEN info.Path
            ELSE IF stat.err = "ENOENT" THEN DeletedName(info.Path) ELSE s_unknown

\* getStructTemplate, lines 793-812: the path annotation of a descriptor field
ResolvePath(its, pid, fd, stat) ==
    LET r == Get(its, pid, fd)
        info == r.info
        fileName1 == IF stat.err # "nil" /\ stat.err = "ENOENT"
                     THEN DeletedName(info.Path)
                     ELSE s_unknown
    IN IF ~r.ok THEN s_unknown
       ELSE IF info.Ino = stat.Ino
               /\ info.Major = Shr8(stat.Dev)
               /\ info.Minor = And255(stat.Dev)
            THEN info.Path
            ELSE fileName1

\* getStructTemplate, lines 785-791: the value of one field and the bytes it
\* takes; binary.LittleEndian.Uint32/Uint64 panic on a slice that is too short
DecodeField(type, buf) ==
    IF type = "[256]byte"
    THEN [panic |-> FALSE, val |-> BufNext(buf, 256) \o Zeros(256 - Len(BufNext(buf, 256))),
          buf |-> Advance(buf, 256)]
    ELSE IF type = "uint32" \/ type = "int32"
    THEN [panic |-> Len(BufNext(buf, 4)) < 4, val |-> BufNext(buf, 4), buf |-> Advance(buf, 4)]
    ELSE IF type = "uint64" \/ type = "int64"
    THEN [panic |-> Len(BufNext(buf, 8)) < 8, val |-> BufNext(buf, 8), buf |-> Advance(buf, 8)]
    ELSE [panic |-> FALSE, val |-> <<>>, buf |-> buf]

\* uint32(ev.X) of a decoded field of 4 or 8 bytes
FieldU32(val) == SubSeq(val, 1, 4)

\* getStructTemplate, lines 784-814: the fields of params from the i-th on;
\* st holds the buffer, the values and the path annotations so far
\* getStructTemplate, lines 785-813: the decoding st after the field p, decoded
\* as f, and its path annotation
DecodedParam(p, st, f, its, pid, stat) ==
    [panic |-> f.panic, buf |-> f.buf,
     vals |-> Append(st.vals, f.val),
     paths |-> Append(st.paths,
                      IF p.NeedsPath /\ ~f.panic
                      THEN ResolvePath(its, pid, FieldU32(f.val), stat)
                      ELSE <<>>)]

RECURSIVE DecodeParams(_, _, _, _, _, _)
DecodeParams(params, i, st, its, pid, stat) ==
    IF i > Len(params) \/ st.panic THEN st
    ELSE DecodeParams(params, i + 1,
                      DecodedParam(params[i], st, DecodeField(params[i].Type, st.buf),
                                   its, pid, stat),
                      its, pid, stat)

\* ev.Fd of a decoded event of schema sc
FdOf(sc, vals) ==
    vals[CHOOSE i \in 1..Len(sc.Params) : sc.Params[i].Name = <<"F","d">>]

\* what GetStruct hands back: kind is "event" (an Event and a nil error), "error"
\* (a nil Event and an error) or "panic" (the goroutine panics)
Outcome(kind, type, vals, paths, buf, its) ==
    [kind |-> kind, type |-> type, vals |-> vals, paths |-> paths, buf |-> buf,
     items |-> its]

\* the decoding of a buffer before its first field
Undecoded(buf) == [panic |-> FALSE, buf |-> buf, vals |-> <<>>, paths |-> <<>>]

\* a faulty end of a case that leaves the descriptor of a close event in the tracker
SyscallOutcomeKeepsFd(sc, its, pid, st) ==
    Outcome(IF st.panic THEN "panic" ELSE "event", sc.Name, st.vals, st.paths, st.buf, its)

\* getStructTemplate, lines 815-819: the close case deletes the descriptor, and
\* the event is returned; st is the decoding of the fields
SyscallOutcome(sc, its, pid, st) ==
    IF st.panic
    THEN Outcome("panic", sc.Name, st.vals, st.paths, st.buf, its)
    ELSE Outcome("event", sc.Name, st.vals, st.paths, st.buf,
                 IF sc.Name = <<"C","l","o","s","e","E","v","e","n","t">>
                 THEN Delete(its, pid, FieldU32(FdOf(sc, st.vals)))
                 ELSE its)

\* getStructTemplate: case "{{ .RawName }}" for the schema sc
GetStructSyscall(sc, its, pid, buf, stat) ==
    SyscallOutcome(sc, its, pid,
                   DecodeParams(sc.Params, 1, Undecoded(buf), its, pid, stat))

n_fd_install == <<"f","d","_","i","n","s","t","a","l","l">>

n_connect_v4 == <<"c","o","n","n","e","c","t","_","v","4">>

n_accept_v4 == <<"a","c","c","e","p","t","_","v","4">>

n_close_v4 == <<"c","l","o","s","e","_","v","4">>

n_connect_v6 == <<"c","o","n","n","e","c","t","_","v","6">>

n_accept_v6 == <<"a","c","c","e","p","t","_","v","6">>

n_close_v6 == <<"c","l","o","s","e","_","v","6">>

s_DefaultEvent == <<"D","e","f","a","u","l","t","E","v","e","n","t">>

\* a faulty test that takes every non-empty name for an absolute path
HasSlashPrefixNonEmpty(s) == Len(s) >= 1

\* strings.HasPrefix(s, "/")
HasSlashPrefix(s) == Len(s) >= 1 /\ s[1] = "/"

\* procLookupPath: os.Readlink of /proc/<pid>/fd/<fd>, a name and an error flag
LookupOk(name) == [err |-> FALSE, name |-> name]

LookupErr == [err |-> TRUE, name |-> <<>>]

\* getStructEpilogue: case "fd_install"
GetStructFdInstall(its, pid, buf, lookup) ==
    IF Len(buf) < 32
    THEN Outcome("error", <<>>, <<>>, <<>>, <<>>, its)
    ELSE LET Fd == SubSeq(buf, 1, 8)
             name == IF lookup.err THEN s_unknown ELSE lookup.name
             fdInfo == [Path |-> name, Ino |-> SubSeq(buf, 9, 16),
                        Major |-> SubSeq(buf, 17, 24), Minor |-> SubSeq(buf, 25, 32)]
         IN Outcome("event", <<"F","i","l","e","E","v","e","n","t">>,
                    <<Fd, fdInfo.Ino, fdInfo.Major, fdInfo.Minor>>, <<>>,
                    Advance(buf, 32),
                    IF HasSlashPrefix(fdInfo.Path)
                    THEN Put(its, pid, U32(Fd), fdInfo)
                    ELSE its)

\* a fixed sequence of reads, each <<width, TRUE when a short slice panics>>
RECURSIVE ReadFixed(_, _, _)
ReadFixed(widths, i, st) ==
    IF i > Len(widths) \/ st.panic THEN st
    ELSE LET b == BufNext(st.buf, widths[i][1]) IN
         ReadFixed(widths, i + 1,
                   [panic |-> widths[i][2] /\ Len(b) < widths[i][1],
                    buf |-> Advance(st.buf, widths[i][1]),
                    vals |-> Append(st.vals, b \o Zeros(widths[i][1] - Len(b)))])

GetStructFixed(type, widths, its, buf) ==
    LET st == ReadFixed(widths, 1, [panic |-> FALSE, buf |-> buf, vals |-> <<>>])
    IN Outcome(IF st.panic THEN "panic" ELSE "event", type, st.vals, <<>>, st.buf, its)

\* getStructEpilogue: case "close_v4", "accept_v4", "connect_v4"
GetStructV4(its, buf) ==
    GetStructFixed(<<"C","o","n","n","e","c","t","V","4","E","v","e","n","t">>,
                   <<<<4, TRUE>>, <<4, TRUE>>, <<2, TRUE>>, <<2, TRUE>>, <<4, TRUE>>>>,
                   its, buf)

\* getStructEpilogue: case "close_v6", "accept_v6", "connect_v6"
GetStructV6(its, buf) ==
    GetStructFixed(<<"C","o","n","n","e","c","t","V","6","E","v","e","n","t">>,
                   <<<<16, FALSE>>, <<16, FALSE>>, <<2, TRUE>>, <<2, TRUE>>, <<4, TRUE>>>>,
                   its, buf)

\* a faulty default case that drains the buffer
GetStructDefaultDrains(its, buf) == Outcome("event", s_DefaultEvent, <<>>, <<>>, <<>>, its)

\* getStructEpilogue: default
GetStructDefault(its, buf) == Outcome("event", s_DefaultEvent, <<>>, <<>>, buf, its)

\* func GetStruct(ce *CommonEvent, ctx Context, buf *bytes.Buffer) (Event, error):
\* the switch on ce.Name; stat and lookup are what the file system answers
GetStruct(name, pid64, its, buf, stat, lookup) ==
    IF name \in SyscallNames
    THEN GetStructSyscall(SchemaOf(goSyscalls, name), its, U32(pid64), buf, stat)
    ELSE IF name = n_fd_install THEN GetStructFdInstall(its, U32(pid64), buf, lookup)
    ELSE IF name \in {n_close_v4, n_accept_v4, n_connect_v4} THEN GetStructV4(its, buf)
    ELSE IF name \in {n_close_v6, n_accept_v6, n_connect_v6} THEN GetStructV6(its, buf)
    ELSE GetStructDefault(its, buf)

\* func (w DefaultEvent) String(ret int64) string
DefaultEventString(ret) == <<>>

\* func (w DefaultEvent) Metric() *Metric
DefaultEventMetric == "nil"

-----------------------------------------------------------------------------
(* The kernel side: the record the probe writes *)

\* sizeof of a kernel-record type on the traced (x86_64 Linux) kernel; 0 for a
\* name that is no type there
CTypeSize(t) ==
    IF t \in {"u64", "s64", "int64_t", "aio_context_t", "loff_t", "off_t",
              "unsigned long", "cap_user_data_t", "cap_user_header_t"} THEN 8
    ELSE IF t \in {"u32", "s32", "gid_t", "uid_t", "qid_t", "key_serial_t", "key_t",
                   "pid_t", "timer_t", "unsigned"} THEN 4
    ELSE IF t = "char" THEN 1
    ELSE 0

\* cStructTemplate: {{ $param.Type }} {{ $param.Name }}{{ $param.Suffix }};
CFieldSize(p) == IF p.Suffix = "[256]" THEN 256 * CTypeSize(p.Type) ELSE CTypeSize(p.Type)

\* the record of the kernel-record schema sc after the common header: every
\* descriptor field holds fdv, every other integer 0, every char array "x"
RECURSIVE KernelRecord(_, _, _)
KernelRecord(sc, i, fdv) ==
    IF i > Len(sc.Params) THEN <<>>
    ELSE LET p == sc.Params[i]
             w == CFieldSize(p)
             field == IF p.Name \in {<<"f","d">>, <<"d","f","d">>} THEN Word(fdv, w)
                      ELSE IF p.Suffix = "[256]" THEN <<120>> \o Zeros(w - 1)
                      ELSE Zeros(w)
         IN field \o KernelRecord(sc, i + 1, fdv)

-----------------------------------------------------------------------------
(* The tracker and the decoder as a state machine: one action per call *)

Keys == Pids \X Fds

NoHist == [k \in Keys |-> <<>>]

\* ghost: the plain map keyed by (pid, fd) after one FdMap call
HistAfter(h, call) ==
    IF call.op = "Put" THEN [h EXCEPT ![<<call.pid, call.fd>>] = <<call.info>>]
    ELSE IF call.op = "Delete" THEN [h EXCEPT ![<<call.pid, call.fd>>] = <<>>]
    ELSE IF call.op = "DeletePid" THEN [k \in Keys |-> IF k[1] = call.pid THEN <<>> ELSE h[k]]
    ELSE IF call.op = "Clear" THEN NoHist
    ELSE h

Call(op, pid, fd, info) == [op |-> op, pid |-> pid, fd |-> fd, info |-> info]

NoOutcome == Outcome("", <<>>, <<>>, <<>>, <<>>, NewFdMap)

NoGet == [isNil |-> TRUE, info |-> ZeroInfo, ok |-> FALSE]

\* the number of descriptors the tracker holds for pid
Tracked(its, pid) == IF pid \in DOMAIN its THEN Cardinality(DOMAIN its[pid]) ELSE 0

\* the number of descriptors the tracker holds
TotalTracked(its) ==
    Cardinality({k \in Keys : k[1] \in DOMAIN its /\ k[2] \in DOMAIN its[k[1]]})

\* the model tracks a further key only below MaxTracked
MayTrack(pid, fd) == Get(items, pid, fd).ok \/ TotalTracked(items) < MaxTracked

\* the record of a call: what was called, with what, what the tracker held for
\* the key before it, and what came back
Last(op, name, pid, fd, info, buf, stat, lookup, got, out) ==
    [op |-> op, name |-> name, pid |-> pid, fd |-> fd, info |-> info, buf |-> buf,
     stat |-> stat, lookup |-> lookup,
     before |-> Get(items, pid, fd), tracked |-> Tracked(items, pid),
     got |-> got, kind |-> out.kind, type |-> out.type, vals |-> out.vals,
     paths |-> out.paths, rest |-> out.buf]

\* before the first call
NoLast ==
    [op |-> "", name |-> <<>>, pid |-> W32(0), fd |-> W32(0), info |-> ZeroInfo,
     buf |-> <<>>, stat |-> NoStat, lookup |-> LookupErr,
     before |-> NoGet, tracked |-> 0,
     got |-> NoGet, kind |-> "", type |-> <<>>, vals |-> <<>>, paths |-> <<>>,
     rest |-> <<>>]

\* the RWMutex held by nobody
Unlocked == [writer |-> 0, readers |-> {}]

\* the number of goroutines that call the tracker concurrently
NumThreads == 2

Threads == 1..NumThreads

\* a goroutine outside every call
IdleThread ==
    [pc |-> "idle", op |-> "", pid |-> W32(0), fd |-> W32(0), info |-> ZeroInfo,
     got |-> NoGet, lin |-> [info |-> ZeroInfo, ok |-> FALSE]]

NoThreads == [t \in Threads |-> IdleThread]

NoInput == [kind |-> ""]

\* a goroutine outside GetStruct: step names the statement it is at, got, stat,
\* fileName and lookup are the local variables of the case
NoFrame ==
    [step |-> "", name |-> <<>>, pid |-> W32(0), fd |-> W32(0), file |-> 0,
     got |-> NoGet, stat |-> NoStat, fileName |-> <<>>, lookup |-> LookupErr]

NoDecoding == [t \in Threads |-> NoFrame]

\* the variables a sequential caller of the tracker leaves alone
aside == <<mu, threads, input, output, decoding>>

Init ==
    /\ mu = Unlocked
    /\ threads = NoThreads
    /\ decoding = NoDecoding
    /\ input = NoInput
    /\ output = NoInput
    /\ items = NewFdMap
    /\ hist = NoHist
    /\ last = NoLast

CallGet ==
    \E pid \in Pids, fd \in Fds :
        /\ last' = Last("Get", <<>>, pid, fd, ZeroInfo, <<>>, NoStat, LookupErr,
                        Get(items, pid, fd), NoOutcome)
        /\ UNCHANGED <<items, hist>>
        /\ UNCHANGED aside

CallPut ==
    \E pid \in Pids, fd \in Fds, info \in Infos :
        /\ MayTrack(pid, fd)
        /\ items' = Put(items, pid, fd, info)
        /\ hist' = HistAfter(hist, Call("Put", pid, fd, info))
        /\ last' = Last("Put", <<>>, pid, fd, info, <<>>, NoStat, LookupErr, NoGet, NoOutcome)
        /\ UNCHANGED aside

CallDelete ==
    \E pid \in Pids, fd \in Fds :
        /\ items' = Delete(items, pid, fd)
        /\ hist' = HistAfter(hist, Call("Delete", pid, fd, ZeroInfo))
        /\ last' = Last("Delete", <<>>, pid, fd, ZeroInfo, <<>>, NoStat, LookupErr, NoGet,
                        NoOutcome)
        /\ UNCHANGED aside

CallDeletePid ==
    \E pid \in Pids :
        /\ items' = DeletePid(items, pid)
        /\ hist' = HistAfter(hist, Call("DeletePid", pid, W32(0), ZeroInfo))
        /\ last' = Last("DeletePid", <<>>, pid, W32(0), ZeroInfo, <<>>, NoStat, LookupErr,
                        NoGet, NoOutcome)
        /\ UNCHANGED aside

CallClear ==
    /\ items' = Clear(items)
    /\ hist' = HistAfter(hist, Call("Clear", W32(0), W32(0), ZeroInfo))
    /\ last' = Last("Clear", <<>>, W32(0), W32(0), ZeroInfo, <<>>, NoStat, LookupErr, NoGet,
                    NoOutcome)
    /\ UNCHANGED aside

\* the kernel-record schema of a compiled syscall
CSchema(name) == SchemaOf(cSyscalls, name)

n_openat == <<"o","p","e","n","a","t">>

\* event names no case of GetStruct names
UnknownNames == {n_openat, <<"c","l","o","s","e","_","v","5">>, <<>>}

V4Names == {n_close_v4, n_accept_v4, n_connect_v4}

V6Names == {n_close_v6, n_accept_v6, n_connect_v6}

\* the events the callers of this model decode
EventNames ==
    {n_close, n_fchmodat, n_open, n_fd_install, n_connect_v4, n_close_v6}
    \cup UnknownNames

\* the complete payload of an event about descriptor fdv and file number i
Payload(name, fdv, i) ==
    IF name \in SyscallNames THEN KernelRecord(CSchema(name), 1, fdv)
    ELSE IF name = n_fd_install THEN W64(fdv) \o W64(i) \o W64(i) \o W64(i)
    ELSE IF name \in V4Names THEN Zeros(16)
    ELSE IF name \in V6Names THEN Zeros(40)
    ELSE W64(fdv)

\* what Readlink may answer for a descriptor of file i
Lookups(i) ==
    {LookupOk(PathOf(i)), LookupOk(<<"s","o","c","k","e","t",":","[","7","]">>), LookupErr}

\* the FdMap calls GetStruct made, read off the event it decoded
CallsOf(name, pid, fdv, out, lookup) ==
    IF name = n_close /\ out.kind = "event"
    THEN <<Call("Delete", pid, W32(fdv), ZeroInfo)>>
    ELSE IF name = n_fd_install /\ out.kind = "event" /\ ~lookup.err
            /\ HasSlashPrefix(lookup.name)
    THEN <<Call("Put", pid, W32(fdv),
                [Path |-> lookup.name, Ino |-> out.vals[2], Major |-> out.vals[3],
                 Minor |-> out.vals[4]])>>
    ELSE <<>>

HistAfterAll(h, calls) == IF calls = <<>> THEN h ELSE HistAfter(h, calls[1])

\* the state after GetStruct returned out for the event name of (pidv, fdv)
\* with the payload buf
Decoded(name, pidv, fdv, buf, stat, lookup, out) ==
    /\ items' = out.items
    /\ hist' = HistAfterAll(hist, CallsOf(name, W32(pidv), fdv, out, lookup))
    /\ last' = Last("GetStruct", name, W32(pidv), W32(fdv), ZeroInfo, buf, stat, lookup,
                    NoGet, out)
    /\ UNCHANGED aside

\* GetStruct is called for the event name of (pidv, fdv) with the payload buf
Decode(name, pidv, fdv, buf, stat, lookup) ==
    Decoded(name, pidv, fdv, buf, stat, lookup,
            GetStruct(name, W64(pidv), items, buf, stat, lookup))

CallGetStruct ==
    \E name \in EventNames :
    \E pidv \in (IF name \in FdSyscallNames \cup {n_fd_install} THEN PidValues ELSE {100}) :
    \E fdv \in (IF name \in FdSyscallNames \cup {n_fd_install} THEN FdValues ELSE {5}) :
    \E i \in (IF name = n_fd_install THEN Files ELSE {0}) :
    \E stat \in (IF name \in FdSyscallNames /\ Get(items, W32(pidv), W32(fdv)).ok
                 THEN StatResults ELSE {NoStat}) :
    \E lookup \in (IF name = n_fd_install THEN Lookups(i) ELSE {LookupErr}) :
        /\ name = n_fd_install => MayTrack(W32(pidv), W32(fdv))
        /\ Decode(name, pidv, fdv, Payload(name, fdv, i), stat, lookup)

Next ==
    \/ CallGet
    \/ CallPut
    \/ CallDelete
    \/ CallDeletePid
    \/ CallClear
    \/ CallGetStruct

Spec == Init /\ [][Next]_vars

-----------------------------------------------------------------------------
(* Claims about the tracker and the decoder *)

KeyOfLast == <<last.pid, last.fd>>

\* what a plain map keyed by (pid, fd) answers for k
PlainGet(h, k) ==
    IF h[k] = <<>> THEN [info |-> ZeroInfo, ok |-> FALSE]
    ELSE [info |-> h[k][1], ok |-> TRUE]

\* C1: after any sequence of Put, Delete, DeletePid and Clear calls (those of
\* GetStruct included), Get(pid, fd) is found with the info of the latest
\* Put(pid, fd, info) that no Delete(pid, fd), DeletePid(pid) or Clear() followed,
\* and not found in every other case.
C1_FdMapIsPlainMap ==
    /\ \A k \in Keys :
          LET g == Get(items, k[1], k[2]) IN
          /\ g.ok = PlainGet(hist, k).ok
          /\ g.ok => g.info = PlainGet(hist, k).info
    /\ last.op = "Get" =>
          /\ last.got.ok = PlainGet(hist, KeyOfLast).ok
          /\ last.got.ok => last.got.info = PlainGet(hist, KeyOfLast).info

\* a Get that finds file 1 under a key, while the other descriptor of the pid is not tracked
C1_Witness ==
    /\ last.op = "Get"
    /\ last.got.ok
    /\ last.got.info = MkFdInfo(PathOf(1), 1, 1, 1)
    /\ \E fd \in Fds : ~Get(items, last.pid, fd).ok

\* C2: DeletePid(pid) removes every entry of pid and changes no entry of another
\* pid; Delete(pid, fd) changes no entry other than (pid, fd), the other
\* descriptors of pid included.
C2_DeleteFrame ==
    [][/\ last'.op = "DeletePid" =>
            \A k \in Keys :
                IF k[1] = last'.pid
                THEN ~Get(items', k[1], k[2]).ok
                ELSE Get(items', k[1], k[2]) = Get(items, k[1], k[2])
       /\ last'.op = "Delete" =>
            \A k \in Keys :
                k # <<last'.pid, last'.fd>> =>
                    Get(items', k[1], k[2]) = Get(items, k[1], k[2])]_vars

\* a DeletePid of a pid that had descriptors, with a descriptor of another pid left
C2_Witness ==
    /\ last.op = "DeletePid"
    /\ last.tracked > 0
    /\ Tracked(items, last.pid) = 0
    /\ TotalTracked(items) > 0

\* the last call decoded a syscall event with a descriptor field for a tracked
\* key and the stat of the recorded path succeeded
ResolvedWithStat ==
    /\ last.op = "GetStruct"
    /\ last.name \in FdSyscallNames
    /\ last.kind = "event"
    /\ last.before.ok
    /\ last.stat.err = "nil"

\* the live file has the recorded inode, major and minor
IdentityMatches(info, stat) ==
    /\ info.Ino = stat.Ino
    /\ info.Major = W64(stat.major)
    /\ info.Minor = W64(stat.minor)

\* C4: when the stat of the recorded path succeeds but inode, major or minor
\* differ from the recorded FdInfo, the path annotation is "unknown"; the recorded
\* path is reported only when all three match the live stat.
C4_StaleIsUnknown ==
    ResolvedWithStat =>
        LET path == last.paths[FdIndex(last.name)] IN
        /\ ~IdentityMatches(last.before.info, last.stat) => path = s_unknown
        /\ path = last.before.info.Path => IdentityMatches(last.before.info, last.stat)

\* an event on a tracked descriptor whose file kept its inode and major but not its minor
C4_Witness ==
    /\ ResolvedWithStat
    /\ last.before.info.Ino = last.stat.Ino
    /\ last.before.info.Major = W64(last.stat.major)
    /\ last.before.info.Minor # W64(last.stat.minor)
    /\ last.paths[FdIndex(last.name)] = s_unknown

\* the step decodes a close event
ClosedInStep == last'.op = "GetStruct" /\ last'.name = n_close /\ last'.kind = "event"

\* C5: decoding a close event for (pid, fd) removes that entry and changes no
\* other; the key stays not found until an fd_install (the caller of Put) puts it.
C5_CloseRemovesEntry ==
    [][/\ ClosedInStep =>
            \A k \in Keys :
                IF k = <<last'.pid, last'.fd>>
                THEN ~Get(items', k[1], k[2]).ok
                ELSE Get(items', k[1], k[2]) = Get(items, k[1], k[2])
       /\ \A k \in Keys :
            ~Get(items, k[1], k[2]).ok /\ Get(items', k[1], k[2]).ok =>
                /\ k = <<last'.pid, last'.fd>>
                /\ \/ last'.op = "Put"
                   \/ last'.op = "GetStruct" /\ last'.name = n_fd_install]_vars

\* a close of a tracked descriptor, with another descriptor still tracked after it
C5_Witness ==
    /\ last.op = "GetStruct"
    /\ last.name = n_close
    /\ last.kind = "event"
    /\ last.before.ok
    /\ ~Get(items, last.pid, last.fd).ok
    /\ TotalTracked(items) > 0

\* the names GetStruct has a case for
KnownNames == SyscallNames \cup {n_fd_install} \cup V4Names \cup V6Names

\* C7: for a name that is no compiled syscall and none of fd_install and the
\* connection events, GetStruct returns a DefaultEvent and a nil error, takes no
\* byte of the buffer and leaves the tracker as it was; the DefaultEvent renders
\* the empty string and a nil metric.
C7_UnknownNameIsDefault ==
    [][last'.op = "GetStruct" /\ last'.name \notin KnownNames =>
            /\ last'.kind = "event"
            /\ last'.type = s_DefaultEvent
            /\ last'.rest = last'.buf
            /\ items' = items
            /\ \A ret \in {-1, 0, 1} : DefaultEventString(ret) = <<>>
            /\ DefaultEventMetric = "nil"]_vars

\* an event named openat decoded while a descriptor is tracked
C7_Witness ==
    /\ last.op = "GetStruct"
    /\ last.name = n_openat
    /\ last.type = s_DefaultEvent
    /\ Len(last.buf) > 0
    /\ TotalTracked(items) > 0

\* the last call decoded an fd_install event
InstalledLast == last.op = "GetStruct" /\ last.name = n_fd_install /\ last.kind = "event"

\* the FdInfo an fd_install event with the payload buf and the resolved path
\* describes: Ino, Major and Minor follow the 8 bytes of Fd
InfoOfEvent(buf, path) ==
    [Path |-> path, Ino |-> SubSeq(buf, 9, 16), Major |-> SubSeq(buf, 17, 24),
     Minor |-> SubSeq(buf, 25, 32)]

\* Readlink answered with a path that starts with "/"
IsAbsolute(lookup) == ~lookup.err /\ lookup.name # <<>> /\ Head(lookup.name) = "/"

\* C13: decoding an fd_install event for (pid, fd) stores the FdInfo of the
\* event's inode, major and minor and the resolved path under (pid, fd) exactly
\* when the path resolved from /proc/<pid>/fd/<fd> starts with "/"; when the
\* lookup fails or the path is not absolute the tracker is left as it was.
C13_InstallPutsAbsolutePath ==
    [][last'.op = "GetStruct" /\ last'.name = n_fd_install /\ last'.kind = "event" =>
            IF IsAbsolute(last'.lookup)
            THEN \A k \in Keys :
                    IF k = <<last'.pid, last'.fd>>
                    THEN /\ Get(items', k[1], k[2]).ok
                         /\ Get(items', k[1], k[2]).info
                                = InfoOfEvent(last'.buf, last'.lookup.name)
                    ELSE /\ Get(items', k[1], k[2]).ok = Get(items, k[1], k[2]).ok
                         /\ Get(items', k[1], k[2]).info = Get(items, k[1], k[2]).info
            ELSE items' = items]_vars

\* an fd_install of file 1 under a key the tracker did not hold, now found with
\* the path and the identity of the event
C13_Witness ==
    /\ InstalledLast
    /\ ~last.before.ok
    /\ last.lookup = LookupOk(PathOf(1))
    /\ Get(items, last.pid, last.fd).ok
    /\ Get(items, last.pid, last.fd).info = MkFdInfo(PathOf(1), 1, 1, 1)

\* the last call decoded a syscall event with a descriptor field for a tracked
\* key and the stat of the recorded path failed with the error e
ResolvedWithError(e) ==
    /\ last.op = "GetStruct"
    /\ last.name \in FdSyscallNames
    /\ last.before.ok
    /\ last.stat.err = e

\* inode, major and minor of the recorded info are all zero
ZeroIdentity(info) == info.Ino = W64(0) /\ info.Major = W64(0) /\ info.Minor = W64(0)

\* C14: when the stat of the recorded path of a tracked (pid, fd) fails with
\* ENOENT, the path annotation is the recorded path marked as deleted, for every
\* recorded FdInfo, one of inode, major and minor zero included.
C14_MissingFileIsDeleted ==
    ResolvedWithError("ENOENT") =>
        /\ last.kind = "event"
        /\ last.paths[FdIndex(last.name)] = DeletedName(last.before.info.Path)

\* what the code does: the mark is made for every recorded identity but the zero
\* one, which the zero Stat_t of the failed call matches
C14_MissingFileOfNonZeroIdentity ==
    ResolvedWithError("ENOENT") /\ ~ZeroIdentity(last.before.info) =>
        /\ last.kind = "event"
        /\ last.paths[FdIndex(last.name)] = DeletedName(last.before.info.Path)

\* the recorded path of a removed file with the zero identity, reported as if
\* the file were there
C14_Witness ==
    /\ ResolvedWithError("ENOENT")
    /\ ZeroIdentity(last.before.info)
    /\ last.kind = "event"
    /\ last.paths[FdIndex(last.name)] = last.before.info.Path
    /\ last.paths[FdIndex(last.name)] # DeletedName(last.before.info.Path)

\* the last call decoded a syscall event with a descriptor field, complete
FdEventLast ==
    /\ last.op = "GetStruct"
    /\ last.name \in FdSyscallNames
    /\ last.buf = Payload(last.name, 5, 0) \/ last.buf = Payload(last.name, 6, 0)

\* C15: when the tracker has no entry for (pid, fd), or the stat of the recorded
\* path fails with an error other than ENOENT, the path annotation is "unknown"
\* and GetStruct returns the event and a nil error.
C15_FailureIsUnknown ==
    FdEventLast /\ (~last.before.ok \/ last.stat.err = "EACCES") =>
        /\ last.kind = "event"
        /\ last.paths[FdIndex(last.name)] = s_unknown

\* what the code does: never an error, and "unknown" unless the recorded
\* identity is the zero one
C15_FailureOfNonZeroIdentity ==
    FdEventLast =>
        /\ last.kind = "event"
        /\ ~last.before.ok => last.paths[FdIndex(last.name)] = s_unknown
        /\ last.before.ok /\ last.stat.err = "EACCES" /\ ~ZeroIdentity(last.before.info) =>
              last.paths[FdIndex(last.name)] = s_unknown

\* a stat refused with EACCES on a tracked descriptor of the zero identity: the
\* annotation is the recorded path
C15_Witness ==
    /\ FdEventLast
    /\ last.before.ok
    /\ last.stat.err = "EACCES"
    /\ last.kind = "event"
    /\ last.paths[FdIndex(last.name)] = PathOf(0)

\* C17: after an fd_install event for (pid, fd) was decoded, the tracker holds
\* for (pid, fd) no entry or an entry with the inode, major and minor of that
\* event; an entry of an earlier descriptor of the same number does not survive.
C17_InstallReplacesEntry ==
    InstalledLast =>
        LET g == Get(items, last.pid, last.fd) IN
        \/ ~g.ok
        \/ /\ g.info.Ino = SubSeq(last.buf, 9, 16)
           /\ g.info.Major = SubSeq(last.buf, 17, 24)
           /\ g.info.Minor = SubSeq(last.buf, 25, 32)

\* what the code does: an fd_install with an absolute path replaces the entry,
\* every other one leaves the tracker as it was
C17_InstallKeepsEntryOfOtherFile ==
    InstalledLast /\ ~IsAbsolute(last.lookup) =>
        Get(items, last.pid, last.fd) = last.before

\* a socket installed under the number of a tracked file, no close in between:
\* the tracker still answers with the identity of file 1 for the descriptor of
\* inode 0
C17_Witness ==
    /\ InstalledLast
    /\ last.before.ok
    /\ ~IsAbsolute(last.lookup)
    /\ SubSeq(last.buf, 9, 16) = W64(0)
    /\ Get(items, last.pid, last.fd).ok
    /\ Get(items, last.pid, last.fd).info = MkFdInfo(PathOf(1), 1, 1, 1)

-----------------------------------------------------------------------------
(* The tracker under concurrent callers: every statement of a method is a step *)

\* the lock a method takes: Get takes RLock (line 69), the others Lock
\* (lines 82, 93, 102, 109)
LockKindPutReads(op) == IF op \in {"Get", "Put"} THEN "R" ELSE "W"

LockKind(op) == IF op = "Get" THEN "R" ELSE "W"

\* plain map semantics of a completed call, as PlainGet reads it
PlainOf(t) == PlainGet(hist, <<threads[t].pid, threads[t].fd>>)

\* the descriptors the concurrent callers name
ConcFds == {W32(5)}

InitConc ==
    /\ Init

\* a goroutine calls a method of the tracker
Invoke(t) ==
    /\ threads[t].pc \in {"idle", "done"}
    /\ \E op \in {"Get", "Put", "Delete", "DeletePid", "Clear"} :
       \E pid \in (IF op = "Clear" THEN {W32(0)} ELSE Pids) :
       \E fd \in (IF op \in {"Clear", "DeletePid"} THEN {W32(0)} ELSE ConcFds) :
       \E info \in (IF op = "Put" THEN Infos ELSE {ZeroInfo}) :
           threads' = [threads EXCEPT ![t] =
                          [IdleThread EXCEPT !.pc = "lock", !.op = op, !.pid = pid,
                                             !.fd = fd, !.info = info]]
    /\ UNCHANGED <<items, hist, last, mu, input, output, decoding>>

\* f.RLock() returns when no writer holds the lock; f.Lock() when nobody does
Acquire(t) ==
    /\ threads[t].pc = "lock"
    /\ IF LockKind(threads[t].op) = "R"
       THEN /\ mu.writer = 0
            /\ mu' = [mu EXCEPT !.readers = @ \cup {t}]
       ELSE /\ mu.writer = 0
            /\ mu.readers = {}
            /\ mu' = [mu EXCEPT !.writer = t]
    /\ threads' = [threads EXCEPT ![t].pc = "first"]
    /\ UNCHANGED <<items, hist, last, input, output, decoding>>

\* the first statement after the lock
First(t) ==
    LET th == threads[t] IN
    /\ th.pc = "first"
    /\ \/ /\ th.op = "Get"
          /\ IF th.pid \in DOMAIN items
             THEN threads' = [threads EXCEPT ![t].pc = "second"]
             ELSE threads' = [threads EXCEPT ![t].pc = "unlock",
                                             ![t].got = Get(items, th.pid, th.fd),
                                             ![t].lin = PlainOf(t)]
          /\ UNCHANGED <<items, hist>>
       \/ /\ th.op = "Put"
          /\ items' = PutAlloc(items, th.pid)
          /\ threads' = [threads EXCEPT ![t].pc = "second"]
          /\ UNCHANGED hist
       \/ /\ th.op = "Delete"
          /\ threads' = [threads EXCEPT ![t].pc =
                            IF th.pid \in DOMAIN items THEN "second" ELSE "unlock"]
          /\ hist' = IF th.pid \in DOMAIN items THEN hist
                     ELSE HistAfter(hist, Call("Delete", th.pid, th.fd, ZeroInfo))
          /\ UNCHANGED items
       \/ /\ th.op = "DeletePid"
          /\ items' = DeletePid(items, th.pid)
          /\ hist' = HistAfter(hist, Call("DeletePid", th.pid, th.fd, ZeroInfo))
          /\ threads' = [threads EXCEPT ![t].pc = "unlock"]
       \/ /\ th.op = "Clear"
          /\ items' = Clear(items)
          /\ hist' = HistAfter(hist, Call("Clear", th.pid, th.fd, ZeroInfo))
          /\ threads' = [threads EXCEPT ![t].pc = "unlock"]
    /\ UNCHANGED <<last, mu, input, output, decoding>>

\* the second statement: Get's inner[fd], Put's f.items[pid][fd] = info,
\* Delete's delete(m, fd); a map that left the table meanwhile is no longer
\* looked at
Second(t) ==
    LET th == threads[t] IN
    /\ th.pc = "second"
    /\ \/ /\ th.op = "Get"
          /\ threads' = [threads EXCEPT ![t].pc = "unlock",
                                          ![t].got = Get(PutAlloc(items, th.pid), th.pid, th.fd),
                                          ![t].lin = PlainOf(t)]
          /\ UNCHANGED <<items, hist>>
       \/ /\ th.op = "Put"
          /\ items' = PutStore(PutAlloc(items, th.pid), th.pid, th.fd, th.info)
          /\ hist' = HistAfter(hist, Call("Put", th.pid, th.fd, th.info))
          /\ threads' = [threads EXCEPT ![t].pc = "unlock"]
       \/ /\ th.op = "Delete"
          /\ items' = Delete(items, th.pid, th.fd)
          /\ hist' = HistAfter(hist, Call("Delete", th.pid, th.fd, ZeroInfo))
          /\ threads' = [threads EXCEPT ![t].pc = "unlock"]
    /\ UNCHANGED <<last, mu, input, output, decoding>>

\* a faulty unlock that leaves the read lock of the caller in place
ReleasedKeepsReaders(m, t) ==
    [writer |-> IF m.writer = t THEN 0 ELSE m.writer, readers |-> m.readers]

\* the lock after the RUnlock or Unlock of t (lines 70, 83, 94, 103, 110)
Released(m, t) ==
    [writer |-> IF m.writer = t THEN 0 ELSE m.writer, readers |-> m.readers \ {t}]

\* the deferred RUnlock or Unlock, and the return; what a Get returned stays
\* with its caller
Release(t) ==
    /\ threads[t].pc = "unlock"
    /\ mu' = Released(mu, t)
    /\ threads' = [threads EXCEPT ![t] =
                      IF threads[t].op = "Get" THEN [@ EXCEPT !.pc = "done"] ELSE IdleThread]
    /\ UNCHANGED <<items, hist, last, input, output, decoding>>

NextConc ==
    \/ \E t \in Threads : Invoke(t)
    \/ \E t \in Threads : Acquire(t)
    \/ \E t \in Threads : First(t)
    \/ \E t \in Threads : Second(t)
    \/ \E t \in Threads : Release(t)

SpecConc == InitConc /\ [][NextConc]_vars

\* between its lock and its unlock
InCritical(t) == threads[t].pc \in {"first", "second", "unlock"}

\* the method writes the table
Writes(t) == threads[t].op # "Get"

\* C3: under any interleaving of concurrent Get, Put, Delete, DeletePid and
\* Clear calls no writer is between its lock and unlock together with another
\* caller; the calls take effect one at a time in the order of their writes, a
\* Get answers what the plain map of that order holds at its read, and what it
\* finds is a whole info that some Put stored.
C3_ConcurrentCallsAreAtomic ==
    /\ \A t \in Threads, u \in Threads :
          t # u /\ InCritical(t) /\ Writes(t) => ~InCritical(u)
    /\ \A t \in Threads :
          threads[t].op = "Get" /\ threads[t].pc \in {"unlock", "done"} =>
              /\ threads[t].got.ok = threads[t].lin.ok
              /\ threads[t].got.ok =>
                    /\ threads[t].got.info = threads[t].lin.info
                    /\ threads[t].got.info \in Infos
    /\ (\A t \in Threads : ~(InCritical(t) /\ Writes(t))) =>
          \A k \in Keys : Get(items, k[1], k[2]).ok = PlainGet(hist, k).ok

\* a Put has allocated the inner map of a new pid and not yet stored the entry,
\* while a Get of the same key waits for the lock
C3_Witness ==
    \E t \in Threads, u \in Threads :
        /\ threads[t].op = "Put" /\ threads[t].pc = "second"
        /\ threads[t].pid \in DOMAIN items /\ items[threads[t].pid] = EmptyInner
        /\ threads[u].op = "Get" /\ threads[u].pc = "lock"
        /\ threads[u].pid = threads[t].pid /\ threads[u].fd = threads[t].fd


-----------------------------------------------------------------------------
(* The decoder on a buffer that ends before the event's fields do *)

\* file 0 recorded under (100, 5)
OneTracked == Put(NewFdMap, W32(100), W32(5), MkFdInfo(PathOf(0), 0, 0, 0))

InitShort ==
    /\ mu = Unlocked
    /\ threads = NoThreads
    /\ decoding = NoDecoding
    /\ input = NoInput
    /\ output = NoInput
    /\ last = NoLast
    /\ \/ items = NewFdMap /\ hist = NoHist
       \/ /\ items = OneTracked
          /\ hist = HistAfter(NoHist, Call("Put", W32(100), W32(5),
                                           MkFdInfo(PathOf(0), 0, 0, 0)))

\* the k-th path annotation was made
Annotated(paths, k) == Len(paths) >= k /\ paths[k] # <<>>

\* the decoding of buf as the event name reaches the stat of a recorded path
ReachesStat(name, buf) ==
    /\ name \in FdSyscallNames
    /\ Get(items, W32(100), W32(5)).ok
    /\ Annotated(GetStruct(name, W64(100), items, buf, NoStat, LookupErr).paths,
                 FdIndex(name))

\* GetStruct on buf, a part of the payload of the event name
DecodeShort(name, buf) ==
    \E stat \in (IF ReachesStat(name, buf)
                 THEN {StatOk(0, 0, 0), StatErr("ENOENT")} ELSE {NoStat}) :
        Decode(name, 100, 5, buf, stat, LookupErr)

\* the first n bytes of a payload, for every n below its length
Prefixes(payload) == {SubSeq(payload, 1, n) : n \in 0..(Len(payload) - 1)}

\* GetStruct on the first bytes of the payload of an event it has a case for
CallGetStructShort ==
    /\ last.op = ""
    /\ \E name \in KnownNames :
       \E buf \in Prefixes(Payload(name, 5, 0)) :
           DecodeShort(name, buf)

SpecShort == InitShort /\ [][CallGetStructShort]_vars

\* C6: for every event name GetStruct has a case for and every buffer shorter
\* than the total width of the event's fields, GetStruct returns a nil event and
\* a non-nil error: it neither panics nor returns an event with a nil error.
C6_ShortBufferIsError ==
    last.op = "GetStruct" /\ Len(last.buf) < Len(Payload(last.name, 5, 0)) =>
        last.kind = "error"

\* what the code does on those buffers: fd_install alone returns the error;
\* every other case panics, having filled the fields before the short one
C6_ShortBufferPanics ==
    last.op = "GetStruct" /\ Len(last.buf) < Len(Payload(last.name, 5, 0)) =>
        /\ last.kind = (IF last.name = n_fd_install THEN "error" ELSE "panic")
        /\ items = IF last.before.ok THEN OneTracked ELSE NewFdMap

\* a close event without a byte of its descriptor field
C6_Witness ==
    /\ last.op = "GetStruct"
    /\ last.name = n_close
    /\ last.buf = <<>>
    /\ last.kind = "panic"


-----------------------------------------------------------------------------
(* One field from the kernel record to the decoder, for every key of the tables *)

\* the kernel type strings the tables map
KernelTypes == {p[1] : p \in cPairs}

\* the kernel-record types that are signed integers on the traced kernel
CSigned(t) ==
    t \in {"s64", "s32", "int64_t", "loff_t", "off_t", "key_serial_t", "key_t", "pid_t",
           "timer_t"}

\* the decoder types GetStruct converts to a signed integer
GoSigned(t) == t \in {"int32", "int64"}

\* the width in bytes of a wire type, 0 for one that carries no integer
ProtoWidth(t) ==
    IF t \in {"int64", "uint64"} THEN 8
    ELSE IF t \in {"int32", "uint32"} THEN 4
    ELSE 0

ProtoSigned(t) == t \in {"int32", "int64"}

Ones8 == <<255, 255, 255, 255, 255, 255, 255, 255>>

\* the integer a field of at most 8 bytes holds, as 16 bytes of two's complement:
\* a signed field with its top bit set extends with ones, any other with zeros
IntegerOf(bytes, signed) ==
    IF bytes = <<>> THEN <<>>
    ELSE IF signed /\ bytes[Len(bytes)] >= 128
    THEN SubSeq(bytes \o Ones8 \o Ones8, 1, 16)
    ELSE SubSeq(bytes \o Zeros8 \o Zeros8, 1, 16)

\* the value of a field: the integer it holds, or the bytes of a char array
ValueOf(bytes, signed) == IF Len(bytes) > 8 THEN bytes ELSE IntegerOf(bytes, signed)

Ones64 == Ones8 \o Ones8 \o Ones8 \o Ones8 \o Ones8 \o Ones8 \o Ones8 \o Ones8

\* n bytes of ones, n <= 256
Ones(n) == SubSeq(Ones64 \o Ones64 \o Ones64 \o Ones64, 1, n)

\* the contents a field of w bytes is tried with: 0, 1 and all ones
FieldContents(w) ==
    IF w = 0 THEN {<<>>} ELSE {Zeros(w), <<1>> \o Zeros(w - 1), Ones(w)}

\* what follows the field in the record
Trailer == <<170, 170, 170, 170, 170, 170, 170, 170>>

\* the three parameters parseLine makes of a field of the kernel type t
ParamsOf(t) == parseLine(FieldLine(t, <<"x">>), 9)

InitTypes ==
    /\ mu = Unlocked
    /\ threads = NoThreads
    /\ decoding = NoDecoding
    /\ items = NewFdMap
    /\ hist = NoHist
    /\ last = NoLast
    /\ output = NoInput
    /\ \E t \in KernelTypes :
       \E bytes \in FieldContents(CFieldSize(ParamsOf(t).c[1])) :
           input = [kind |-> "field", type |-> t, bytes |-> bytes]

\* what the decoder made of a field: f is the decoding of the record by the
\* decoder parameter go, c and proto are the other two parameters
Transferred(go, c, proto, bytes, record, f) ==
    [kind |-> "decoded", go |-> go.Type, c |-> c.Type, proto |-> proto.Type,
     written |-> Len(bytes), consumed |-> Len(record) - Len(f.buf), panic |-> f.panic,
     cValue |-> ValueOf(bytes, CSigned(c.Type)),
     goValue |-> ValueOf(f.val, GoSigned(go.Type))]

\* the probe writes the field into the record and GetStruct decodes it
Transfer(pl, bytes) ==
    Transferred(pl.go[1], pl.c[1], pl.proto[1], bytes, bytes \o Trailer,
                DecodeField(pl.go[1].Type, bytes \o Trailer))

CallTransfer ==
    /\ input.kind = "field"
    /\ output = NoInput
    /\ output' = Transfer(ParamsOf(input.type), input.bytes)
    /\ UNCHANGED <<items, hist, last, mu, threads, input, decoding>>

SpecTypes == InitTypes /\ [][CallTransfer]_vars

\* the decoder type and the wire type agree in width and sign
WireAgrees(go, proto) ==
    IF go = "[256]byte" THEN proto = "bytes"
    ELSE /\ ProtoWidth(proto) # 0
         /\ go \in {"int32", "uint32"} <=> ProtoWidth(proto) = 4
         /\ go \in {"int64", "uint64"} <=> ProtoWidth(proto) = 8
         /\ GoSigned(go) <=> ProtoSigned(proto)

\* C8: for every kernel type string of the tables, GetStruct consumes as many
\* bytes for the field as the C record holds for it, the value it reads is the
\* value the probe wrote (same width, same sign), and the wire type has the
\* width and sign of the decoder type.
C8_TypesRoundTrip ==
    output.kind = "decoded" =>
        /\ ~output.panic
        /\ output.consumed = output.written
        /\ output.written > 0
        /\ output.goValue = output.cValue
        /\ WireAgrees(output.go, output.proto)

\* the kernel types whose three mapped types do agree
AgreeingTypes ==
    {t \in KernelTypes :
        \/ Lookup(goTypeConversions, t) = "[256]byte"
        \/ /\ Lookup(goTypeConversions, t) \in {"int32", "uint32", "int64", "uint64"}
           /\ Lookup(cTypeConversions, t) \in
                {"u64", "s64", "u32", "s32", "int64_t", "loff_t", "off_t", "gid_t",
                 "uid_t", "qid_t", "key_serial_t", "aio_context_t", "unsigned long"}
           /\ t \notin {"int *", "size_t *", "timer_t *", "time_t *", "__s32", "u32 *"}}

\* the types of the fields of the considered syscalls
ConsideredTypes ==
    UNION {{consideredSyscalls[i][2][k][1] : k \in 1..Len(consideredSyscalls[i][2])} :
              i \in 1..Len(consideredSyscalls)}

\* what does hold: the round trip of the agreeing types, the types of the
\* considered syscalls among them
C8_AgreeingTypesRoundTrip ==
    /\ input.kind = "field" /\ output.kind = "decoded" /\ input.type \in AgreeingTypes =>
        /\ ~output.panic
        /\ output.consumed = output.written
        /\ output.goValue = output.cValue
        /\ WireAgrees(output.go, output.proto)
    /\ ConsideredTypes \subseteq AgreeingTypes

\* a pid_t field holding -1: the probe writes 4 bytes, GetStruct reads 8
C8_Witness ==
    /\ input.kind = "field"
    /\ input.type = "pid_t"
    /\ input.bytes = <<255, 255, 255, 255>>
    /\ output.kind = "decoded"
    /\ output.written = 4
    /\ output.consumed = 8


-----------------------------------------------------------------------------
(* The schema compiler on format texts *)

\* the most lines of a format text, the real formats of the considered syscalls aside
MaxLines == 4

s_fd == <<"f","d">>

s_dfd == <<"d","f","d">>

s__fd == <<"_","f","d">>

s_filename == <<"f","i","l","e","n","a","m","e">>

\* the lines the format texts are made of
Lines ==
    {BlankLine, TextLine, FieldLine("int", s_syscall_nr), FieldLine("unsigned int", s_fd),
     FieldLine("int", s_dfd), FieldLine("const char *", s_filename),
     FieldLine("long", s__fd), FieldLine("umode_t", <<"m","o","d","e">>)}

\* the format texts of at most MaxLines lines
Texts == UNION {[1..k -> Lines] : k \in 0..MaxLines}

\* the format texts the kernel has for the considered syscalls
KernelTexts ==
    {[kind |-> "format", name |-> consideredSyscalls[i][1],
      parts |-> KernelFormat(consideredSyscalls[i][2])] : i \in 1..Len(consideredSyscalls)}

InitParse ==
    /\ mu = Unlocked
    /\ threads = NoThreads
    /\ decoding = NoDecoding
    /\ items = NewFdMap
    /\ hist = NoHist
    /\ last = NoLast
    /\ output = NoInput
    /\ input \in {[kind |-> "format", name |-> n_fchmodat, parts |-> t] : t \in Texts}
                 \cup KernelTexts

CallParseSyscall ==
    /\ input.kind = "format"
    /\ output = NoInput
    /\ output' = [kind |-> "parsed", sc |-> parseSyscall(input.name, input.parts)]
    /\ UNCHANGED <<items, hist, last, mu, threads, input, decoding>>

SpecParse == InitParse /\ [][CallParseSyscall]_vars

\* the index of the source line of the N-th kernel-record parameter
LineOf(sc, N) == sc.c.Params[N].Position + 8 + 1

\* C9: the three schema variants parseSyscall returns have the same number of
\* parameters; the N-th parameter of each is the one made of one and the same
\* line of the format text; the decoder name is ToCamel of the kernel-record
\* name; the parameters are in the order of their lines.
C9_VariantsAligned ==
    output.kind = "parsed" =>
        LET sc == output.sc IN
        /\ Len(sc.go.Params) = Len(sc.c.Params)
        /\ Len(sc.proto.Params) = Len(sc.c.Params)
        /\ \A N \in 1..Len(sc.c.Params) :
              /\ LineOf(sc, N) \in 1..Len(input.parts)
              /\ input.parts[LineOf(sc, N)].kind = "field"
              /\ sc.c.Params[N].Name = input.parts[LineOf(sc, N)].name
              /\ sc.proto.Params[N].Name = input.parts[LineOf(sc, N)].name
              /\ sc.go.Params[N].Name = ToCamel(sc.c.Params[N].Name)
              /\ sc.go.Params[N].Type =
                    Lookup(goTypeConversions, input.parts[LineOf(sc, N)].type)
              /\ sc.c.Params[N].Type =
                    Lookup(cTypeConversions, input.parts[LineOf(sc, N)].type)
              /\ sc.proto.Params[N].Type =
                    Lookup(protoTypeConversions, sc.go.Params[N].Type)
        /\ \A N \in 1..Len(sc.c.Params), M \in 1..Len(sc.c.Params) :
              N < M => LineOf(sc, N) < LineOf(sc, M)

\* a text whose header holds a field line, parsed into two parameters of
\* different lines, the first of them a descriptor
C9_Witness ==
    /\ input.kind = "format" /\ output.kind = "parsed"
    /\ Len(input.parts) = MaxLines
    /\ input.parts[1].kind = "field"
    /\ Len(output.sc.go.Params) = 2
    /\ output.sc.go.Params[1].Name = <<"F","d">>
    /\ output.sc.c.Params[1].Name = s_fd
    /\ output.sc.go.Params[2].Name # <<"F","d">>

\* the lines of parts from the i-th on, once the first blank line is passed
RECURSIVE FieldsAfterBlank(_, _, _)
FieldsAfterBlank(parts, i, passed) ==
    IF i > Len(parts) THEN <<>>
    ELSE IF ~passed THEN FieldsAfterBlank(parts, i + 1, parts[i].kind = "blank")
    ELSE IF parts[i].kind = "field" /\ parts[i].name # s_syscall_nr
    THEN <<parts[i]>> \o FieldsAfterBlank(parts, i + 1, TRUE)
    ELSE FieldsAfterBlank(parts, i + 1, TRUE)

\* the CamelCase form of the field names of the texts
CamelCase(name) ==
    IF name = s_fd \/ name = s__fd THEN <<"F","d">>
    ELSE IF name = s_dfd THEN <<"D","f","d">>
    ELSE IF name = s_filename THEN <<"F","i","l","e","n","a","m","e">>
    ELSE IF name = <<"m","o","d","e">> THEN <<"M","o","d","e">>
    ELSE IF name = <<"f","l","a","g","s">> THEN <<"F","l","a","g","s">>
    ELSE IF name = <<"f","l","a","g">> THEN <<"F","l","a","g">>
    ELSE IF name = <<"p","a","t","h","n","a","m","e">> THEN <<"P","a","t","h","n","a","m","e">>
    ELSE IF name = <<"u","s","e","r">> THEN <<"U","s","e","r">>
    ELSE IF name = <<"g","r","o","u","p">> THEN <<"G","r","o","u","p">>
    ELSE IF name = <<"c","o","u","n","t">> THEN <<"C","o","u","n","t">>
    ELSE IF name = <<"b","u","f">> THEN <<"B","u","f">>
    ELSE <<>>

\* the decoder parameters of open
OpenParams ==
    <<MkParam(0, <<"F","i","l","e","n","a","m","e">>, "[256]byte", "", FALSE),
      MkParam(0, <<"F","l","a","g","s">>, "int64", "", FALSE),
      MkParam(0, <<"M","o","d","e">>, "uint64", "", FALSE)>>

\* C10: parseSyscall skips every line up to and including the first blank line
\* and drops the __syscall_nr field; every other field line after it becomes one
\* parameter, named by the CamelCase form of the field name, typed by the mapping
\* table, with NeedsPath exactly when that name is Fd or Dfd; the decoder schema
\* of open is Filename [256]byte, Flags int64, Mode uint64 with no NeedsPath.
C10_ParseSyscall ==
    output.kind = "parsed" =>
        LET want == FieldsAfterBlank(input.parts, 1, FALSE)
            got == output.sc.go.Params
        IN /\ ~output.sc.err
           /\ Len(got) = Len(want)
           /\ \A N \in 1..Len(want) :
                 /\ got[N].Name = CamelCase(want[N].name)
                 /\ got[N].Type = Lookup(goTypeConversions, want[N].type)
                 /\ got[N].NeedsPath <=>
                        got[N].Name \in {<<"F","d">>, <<"D","f","d">>}
                 /\ output.sc.c.Params[N].Name = want[N].name
           /\ input.name = n_open /\ input \in KernelTexts =>
                 /\ got = OpenParams
                 /\ output.sc.go.Name = <<"O","p","e","n","E","v","e","n","t">>

\* the kernel's format of open, with its header, __syscall_nr and the three
\* fields, compiled into three parameters
C10_Witness ==
    /\ input \in KernelTexts
    /\ input.name = n_open
    /\ input.parts[9].name = s_syscall_nr
    /\ input.parts[10].name = s_filename
    /\ output.kind = "parsed"
    /\ Len(output.sc.go.Params) = 3

-----------------------------------------------------------------------------
(* The generated String and GetArgN of a syscall event *)

\* a faulty bufLen that does not look for the zero byte
bufLenWhole(buf) == Len(buf)

\* func bufLen(buf [256]byte) int: the index of the first zero byte
bufLen(buf) ==
    IF \E idx \in 1..Len(buf) : buf[idx] = 0
    THEN (CHOOSE idx \in 1..Len(buf) :
              buf[idx] = 0 /\ \A j \in 1..(idx - 1) : buf[j] # 0) - 1
    ELSE Len(buf)

\* eventStringsTemplate, lines 704-710 and 743-749: length, from the return
\* value for ReadEvent and WriteEvent and from bufLen for every other event
BufferLength(name, buf, ret) ==
    IF name \in {<<"R","e","a","d","E","v","e","n","t">>,
                 <<"W","r","i","t","e","E","v","e","n","t">>}
    THEN IF ret > 0 THEN Min(ret, Len(buf)) ELSE 0
    ELSE bufLen(buf)

\* eventStringsTemplate, lines 711 and 750: bufferGo := C.GoStringN(buffer, length),
\* the first length bytes of the array, zero bytes among them included
BufferGo(name, buf, ret) == SubSeq(buf, 1, BufferLength(name, buf, ret))

\* eventStringsTemplate, lines 716 and 738: the types rendered as numbers
IsNumberType(type) == type \in {"uint64", "int64", "uint32"}

\* eventStringsTemplate, lines 701 and 723: the names rendered from bufferGo
IsBufferName(n) ==
    n \in {<<"B","u","f">>, <<"F","i","l","e","n","a","m","e">>,
           <<"P","a","t","h","n","a","m","e">>}

\* one operand of a fmt call: the verb and the value handed to it; how fmt
\* writes the value out is left to fmt
Operand(verb, arg, path) == [verb |-> verb, arg |-> arg, path |-> path]

\* eventStringsTemplate, lines 714-731: the operands of the Sprintf of String,
\* from the k-th parameter on
RECURSIVE StringOperands(_, _, _, _, _)
StringOperands(sc, vals, paths, ret, k) ==
    IF k > Len(sc.Params) THEN <<>>
    ELSE <<Operand(IF IsNumberType(sc.Params[k].Type) THEN "%d" ELSE "%q",
                   IF IsBufferName(sc.Params[k].Name)
                   THEN BufferGo(sc.Name, vals[k], ret)
                   ELSE vals[k],
                   IF IsFdName(sc.Params[k].Name) THEN <<paths[k]>> ELSE <<>>)>>
         \o StringOperands(sc, vals, paths, ret, k + 1)

\* func (e {{ .Name }}) String(ret int64) string
String(sc, vals, paths, ret) ==
    [err |-> FALSE, args |-> StringOperands(sc, vals, paths, ret, 1)]

\* func (e {{ .Name }}) GetArgN(n int, ret int64) (string, error)
GetArgN(sc, vals, n, ret) ==
    IF n \in 0..(Len(sc.Params) - 1)
    THEN [err |-> FALSE,
          args |-> <<IF IsNumberType(sc.Params[n + 1].Type)
                     THEN Operand("%v", vals[n + 1], <<>>)
                     ELSE Operand("", BufferGo(sc.Name, vals[n + 1], ret), <<>>)>>]
    ELSE [err |-> TRUE, args |-> <<>>]

\* the contents of the [256]byte arguments of the events rendered
RenderBuffers ==
    {Zeros(256),
     <<120>> \o Zeros(255),
     <<120, 121, 122>> \o Zeros(253),
     <<120, 0, 122>> \o Zeros(253),
     <<0, 120>> \o Zeros(254),
     Ones(255) \o <<0>>,
     Ones(256)}

\* the return values of the events rendered
RetValues == {-1, 0, 1, 2, 3, 255, 256, 257, 4096}

\* the fields of an event of the schema sc from the k-th on: buf in the
\* [256]byte ones, 5 in the others
RECURSIVE EventFields(_, _, _)
EventFields(sc, buf, k) ==
    IF k > Len(sc.Params) THEN <<>>
    ELSE <<IF sc.Params[k].Type = "[256]byte" THEN buf
           ELSE IF sc.Params[k].Type = "uint32" THEN W32(5) ELSE W64(5)>>
         \o EventFields(sc, buf, k + 1)

\* the path annotations of that event
RECURSIVE EventPaths(_, _)
EventPaths(sc, k) ==
    IF k > Len(sc.Params) THEN <<>>
    ELSE <<IF sc.Params[k].NeedsPath THEN s_unknown ELSE <<>>>> \o EventPaths(sc, k + 1)

\* a decoded event of the schema sc, and the return value of its syscall
RenderInput(sc, buf, ret) ==
    [kind |-> "event", sc |-> sc, buf |-> buf, ret |-> ret,
     vals |-> EventFields(sc, buf, 1), paths |-> EventPaths(sc, 1)]

InitRender ==
    /\ mu = Unlocked
    /\ threads = NoThreads
    /\ decoding = NoDecoding
    /\ items = NewFdMap
    /\ hist = NoHist
    /\ last = NoLast
    /\ output = NoInput
    /\ \E i \in 1..Len(goSyscalls), buf \in RenderBuffers, ret \in RetValues :
           input = RenderInput(goSyscalls[i], buf, ret)

\* what a call of a method of the event left: repeat tells that the call
\* before it was the same one
Rendered(method, n, res) ==
    output' = [kind |-> method, n |-> n, err |-> res.err, args |-> res.args,
               repeat |-> output.kind = method /\ output.n = n]

\* the caller renders the event
CallString ==
    /\ Rendered("String", 0, String(input.sc, input.vals, input.paths, input.ret))
    /\ UNCHANGED <<items, hist, last, mu, threads, input, decoding>>

\* the caller asks for the n-th argument
CallGetArgN ==
    /\ \E n \in 0..5 : Rendered("GetArgN", n, GetArgN(input.sc, input.vals, n, input.ret))
    /\ UNCHANGED <<items, hist, last, mu, threads, input, decoding>>

NextRender ==
    \/ CallString
    \/ CallGetArgN

SpecRender == InitRender /\ [][NextRender]_vars

\* s holds the bytes of buf before its first zero byte, all of them when there
\* is none
IsCString(s, buf) ==
    /\ Len(s) <= Len(buf)
    /\ s = SubSeq(buf, 1, Len(s))
    /\ \A i \in 1..Len(s) : s[i] # 0
    /\ Len(s) = Len(buf) \/ buf[Len(s) + 1] = 0

\* s holds the first min(ret, 256) bytes of buf, none when ret <= 0
IsCounted(s, buf, ret) ==
    IF ret <= 0 THEN s = <<>>
    ELSE IF ret < 256 THEN s = SubSeq(buf, 1, ret)
    ELSE s = buf

\* s is what the [256]byte argument buf of the syscall raw renders as
IsRenderingOf(s, raw, buf, ret) ==
    IF raw \in {<<"r","e","a","d">>, <<"w","r","i","t","e">>}
    THEN IsCounted(s, buf, ret)
    ELSE IsCString(s, buf)

\* the operand of the k-th parameter of the event rendered, in what the call left
OperandOf(out, k) == IF out.kind = "String" THEN out.args[k] ELSE out.args[1]

\* the parameters the call rendered
RenderedParams(out, sc) ==
    IF out.err THEN {}
    ELSE IF out.kind = "String" THEN 1..Len(sc.Params)
    ELSE {out.n + 1}

\* C11: String and GetArgN render a [256]byte argument as the bytes before its
\* first zero byte (all 256 when there is none) for every syscall other than
\* read and write, and as its first min(ret, 256) bytes for read and write, none
\* when ret <= 0; the same call on the same event and ret gives the same again.
C11_BufferRendering ==
    [][/\ \A k \in RenderedParams(output', input.sc) :
              input.sc.Params[k].Type = "[256]byte" =>
                  IsRenderingOf(OperandOf(output', k).arg, input.sc.RawName,
                                input.buf, input.ret)
       /\ output'.repeat =>
              output'.err = output.err /\ output'.args = output.args]_vars

\* GetArgN(1, 3) of a read event whose buffer holds a zero byte at its second
\* place, twice: the three bytes, the zero one among them
C11_Witness ==
    /\ output.kind = "GetArgN"
    /\ output.n = 1
    /\ output.repeat
    /\ input.sc.RawName = <<"r","e","a","d">>
    /\ input.ret = 3
    /\ output.args[1].arg = <<120, 0, 122>>

-----------------------------------------------------------------------------
(* The schema compiler on a format that names a type the tables do not hold *)

\* one tracepoint directory the walk visits: the syscall name and the
\* lines of its format file
Dir(name, parts) == [name |-> name, parts |-> parts]

\* what GatherSyscalls returns: the three lists, or the error
Gathered(go, c, proto, err) == [go |-> go, c |-> c, proto |-> proto, err |-> err]

\* GatherSyscalls, lines 1142-1156: the walk over the directories dirs of
\* considered syscalls from the i-th on; an error of parseSyscall ends it
RECURSIVE WalkDirs(_, _, _)
WalkDirs(dirs, i, acc) ==
    IF i > Len(dirs) THEN acc
    ELSE LET r == parseSyscall(dirs[i].name, dirs[i].parts) IN
         IF r.err THEN Gathered(<<>>, <<>>, <<>>, TRUE)
         ELSE WalkDirs(dirs, i + 1,
                       Gathered(Append(acc.go, r.go), Append(acc.c, r.c),
                                Append(acc.proto, r.proto), FALSE))

\* func GatherSyscalls() on a tracepoint tree with the directories dirs
GatherSyscallsIn(dirs) == WalkDirs(dirs, 1, Gathered(<<>>, <<>>, <<>>, FALSE))

\* kernel types of newer syscalls, which the tables have no key for
NewerTypes == {"struct statx *", "rwf_t", "const struct rseq *"}

\* the fields of a considered syscall with the type of the j-th replaced by t
Retyped(fields, j, t) == [fields EXCEPT ![j] = <<t, fields[j][2]>>]

\* a tree of the directory of close and the directory of the i-th considered
\* syscall, whose j-th field has the type t
RetypedTree(i, j, t) ==
    [kind |-> "tree", line |-> 8 + j, type |-> t,
     dirs |-> <<Dir(n_close, KernelFormat(<<f_fd>>)),
                Dir(consideredSyscalls[i][1],
                    KernelFormat(Retyped(consideredSyscalls[i][2], j, t)))>>]

InitUnmapped ==
    /\ mu = Unlocked
    /\ threads = NoThreads
    /\ decoding = NoDecoding
    /\ items = NewFdMap
    /\ hist = NoHist
    /\ last = NoLast
    /\ output = NoInput
    /\ \E i \in 1..Len(consideredSyscalls) :
       \E j \in 1..Len(consideredSyscalls[i][2]) :
       \E t \in NewerTypes \cup {consideredSyscalls[i][2][j][1]} :
           input = RetypedTree(i, j, t)

\* the generator compiles the tree: what parseLine returns for the retyped
\* line, parseSyscall for its format and GatherSyscalls for the tree
CallGatherSyscalls ==
    /\ output = NoInput
    /\ output' = [kind |-> "gathered",
                  line |-> parseLine(input.dirs[2].parts[input.line + 1], input.line),
                  syscall |-> parseSyscall(input.dirs[2].name, input.dirs[2].parts),
                  all |-> GatherSyscallsIn(input.dirs)]
    /\ UNCHANGED <<items, hist, last, mu, threads, input, decoding>>

SpecUnmapped == InitUnmapped /\ [][CallGatherSyscalls]_vars

\* a kernel type without a key in one of the two tables keyed by kernel types,
\* or whose decoder type has no key in the table of wire types
IsUnmapped(t) ==
    \/ t \notin DOMAIN goTypeConversions
    \/ t \notin DOMAIN cTypeConversions
    \/ goTypeConversions[t] \notin DOMAIN protoTypeConversions

\* the schemas of the list scs in which a parameter has the empty type
WithEmptyType(scs) ==
    {i \in 1..Len(scs) : \E k \in 1..Len(scs[i].Params) : scs[i].Params[k].Type = ""}

\* the tree was compiled and its retyped field has a type of no table
CompiledUnmapped == output.kind = "gathered" /\ IsUnmapped(input.type)

\* C12: when a field line of a compiled syscall names a kernel type without an
\* entry in a mapping table, parseLine, parseSyscall and GatherSyscalls return an
\* error and no schema with an empty type is produced.
C12_UnmappedTypeIsError ==
    CompiledUnmapped =>
        /\ output.line.err
        /\ output.syscall.err
        /\ output.all.err
        /\ WithEmptyType(output.all.go) = {}
        /\ WithEmptyType(output.all.c) = {}
        /\ WithEmptyType(output.all.proto) = {}

\* what the code does: no error from any of the three, and the schema of the
\* syscall comes out with the empty type in all three variants
C12_UnmappedTypeIsEmpty ==
    CompiledUnmapped =>
        /\ ~output.line.err /\ ~output.syscall.err /\ ~output.all.err
        /\ output.line.go[1].Type = ""
        /\ output.line.c[1].Type = ""
        /\ output.line.proto[1].Type = ""
        /\ WithEmptyType(output.all.go) = {2}
        /\ WithEmptyType(output.all.c) = {2}
        /\ WithEmptyType(output.all.proto) = {2}

\* open with a filename of the type struct statx *: compiled without an error
\* into a decoder schema whose Filename has the empty type
C12_Witness ==
    /\ output.kind = "gathered"
    /\ input.dirs[2].name = n_open
    /\ input.type = "struct statx *"
    /\ input.line = 9
    /\ ~output.all.err
    /\ Len(output.all.go) = 2
    /\ output.all.go[2].Params[1].Name = <<"F","i","l","e","n","a","m","e">>
    /\ output.all.go[2].Params[1].Type = ""

-----------------------------------------------------------------------------
(* GetStruct under concurrent callers: the tracker methods it calls run *)
(* statement by statement, as above, and the file system is asked in between *)

\* the key of the events the concurrent callers decode
ResolvePid == W32(100)

ResolveFd == W32(5)

\* the syscall events they decode: close, and fchmodat on the same descriptor
ResolveNames == {n_close, n_fchmodat}

\* what stat may answer while other goroutines run
ResolveStats == {StatOk(0, 0, 0), StatOk(1, 1, 1), StatErr("ENOENT")}

\* the goroutine t calls the method op of the tracker
Calling(t, op, info) ==
    [threads EXCEPT ![t] = [IdleThread EXCEPT !.pc = "lock", !.op = op, !.pid = ResolvePid,
                                              !.fd = ResolveFd, !.info = info]]

\* the frame of t moves to the statement step
AtStep(t, step) == [decoding EXCEPT ![t].step = step]

\* GetStruct is entered: a syscall case has decoded its descriptor field and
\* calls ctx.Fds.Get (line 794); the fd_install case has read the event (line 827)
StartGetStruct(t) ==
    /\ decoding[t].step \in {"", "returned"}
    /\ \/ \E name \in ResolveNames :
             /\ decoding' = [decoding EXCEPT ![t] =
                                [NoFrame EXCEPT !.step = "Get", !.name = name,
                                                !.pid = ResolvePid, !.fd = ResolveFd,
                                                !.fileName = s_unknown]]
             /\ threads' = Calling(t, "Get", ZeroInfo)
       \/ \E i \in Files :
             /\ decoding' = [decoding EXCEPT ![t] =
                                [NoFrame EXCEPT !.step = "lookup", !.name = n_fd_install,
                                                !.pid = ResolvePid, !.fd = ResolveFd,
                                                !.file = i]]
             /\ UNCHANGED threads
    /\ UNCHANGED <<items, hist, last, mu, input, output>>

\* another goroutine of the caller tells the tracker of a process exit, or
\* empties it
StartCall(t) ==
    /\ decoding[t].step \in {"", "returned"}
    /\ \E op \in {"DeletePid", "Clear"} :
          /\ decoding' = [decoding EXCEPT ![t] = [NoFrame EXCEPT !.step = "call"]]
          /\ threads' = Calling(t, op, ZeroInfo)
    /\ UNCHANGED <<items, hist, last, mu, input, output>>

\* line 794-795: Get has returned the copy it made under the lock, and ok
Resolved(t) ==
    /\ decoding[t].step = "Get"
    /\ threads[t].pc = "done"
    /\ decoding' = [decoding EXCEPT ![t].got = threads[t].got,
                                    ![t].step = IF threads[t].got.ok THEN "stat"
                                                ELSE "annotated"]
    /\ threads' = [threads EXCEPT ![t] = IdleThread]
    /\ UNCHANGED <<items, hist, last, mu, input, output>>

\* lines 796-811: syscall.Stat of the recorded path and the comparison with the
\* copy of the recorded identity
StatPath(t) ==
    /\ decoding[t].step = "stat"
    /\ \E stat \in ResolveStats :
          decoding' = [decoding EXCEPT
                          ![t].stat = stat,
                          ![t].step = "annotated",
                          ![t].fileName =
                              ResolvePath(Put(NewFdMap, ResolvePid, ResolveFd,
                                              decoding[t].got.info),
                                          ResolvePid, ResolveFd, stat)]
    /\ UNCHANGED <<items, hist, last, mu, threads, input, output>>

\* lines 812-820: the annotation is stored; the close case calls
\* ctx.Fds.Delete, every other case returns the event
EndOfCase(t) ==
    /\ decoding[t].step = "annotated"
    /\ IF decoding[t].name = n_close
       THEN /\ decoding' = AtStep(t, "Delete")
            /\ threads' = Calling(t, "Delete", ZeroInfo)
       ELSE /\ decoding' = AtStep(t, "returned")
            /\ UNCHANGED threads
    /\ UNCHANGED <<items, hist, last, mu, input, output>>

\* the FdInfo of line 835 for the file i under the name
InstalledInfo(name, i) == [Path |-> name, Ino |-> W64(i), Major |-> W64(i), Minor |-> W64(i)]

\* lines 830-842: procLookupPath, and ctx.Fds.Put when the path is absolute
LookupPath(t) ==
    /\ decoding[t].step = "lookup"
    /\ \E lookup \in Lookups(decoding[t].file) :
          LET name == IF lookup.err THEN s_unknown ELSE lookup.name IN
          IF HasSlashPrefix(name)
          THEN /\ decoding' = [decoding EXCEPT ![t].lookup = lookup, ![t].step = "Put"]
               /\ threads' = Calling(t, "Put", InstalledInfo(name, decoding[t].file))
          ELSE /\ decoding' = [decoding EXCEPT ![t].lookup = lookup,
                                               ![t].step = "returned"]
               /\ UNCHANGED threads
    /\ UNCHANGED <<items, hist, last, mu, input, output>>

\* Delete, Put, DeletePid or Clear has returned, and so does the caller
Returned(t) ==
    /\ decoding[t].step \in {"Delete", "Put", "call"}
    /\ threads[t].pc = "idle"
    /\ decoding' = AtStep(t, "returned")
    /\ UNCHANGED <<items, hist, last, mu, threads, input, output>>

NextResolve ==
    \/ \E t \in Threads : StartGetStruct(t)
    \/ \E t \in Threads : StartCall(t)
    \/ \E t \in Threads : Acquire(t)
    \/ \E t \in Threads : First(t)
    \/ \E t \in Threads : Second(t)
    \/ \E t \in Threads : Release(t)
    \/ \E t \in Threads : Resolved(t)
    \/ \E t \in Threads : StatPath(t)
    \/ \E t \in Threads : EndOfCase(t)
    \/ \E t \in Threads : LookupPath(t)
    \/ \E t \in Threads : Returned(t)

SpecResolve == Init /\ [][NextResolve]_vars

\* the goroutine holds the lock of the tracker
HoldsLock(t) == mu.writer = t \/ t \in mu.readers

\* C16: in GetStruct the stat runs while the lock of the tracker is not held:
\* the lock is held only inside a method of the tracker, Get has handed out its
\* copy of the entry and released the read lock before stat is called, and a
\* goroutine at the stat keeps no Put, Delete, DeletePid or Clear from the lock.
C16_StatOutsideLock ==
    /\ \A t \in Threads :
          HoldsLock(t) => decoding[t].step \in {"Get", "Delete", "Put", "call"}
    /\ \A t \in Threads :
          decoding[t].step = "stat" =>
              /\ ~HoldsLock(t)
              /\ decoding[t].got.ok
              /\ threads[t].pc = "idle"
              /\ (\A u \in Threads \ {t} : ~HoldsLock(u)) => mu = Unlocked

\* a close is at its stat while the Put of an fd_install holds the write lock
C16_Witness ==
    \E t \in Threads, u \in Threads :
        /\ decoding[t].step = "stat"
        /\ decoding[t].name = n_close
        /\ decoding[u].step = "Put"
        /\ mu.writer = u
        /\ threads[u].pc = "second"

\* the step is the delete statement of the Delete a close event calls
CloseDeletes(t) ==
    /\ decoding[t].name = n_close
    /\ decoding[t].step = "Delete"
    /\ threads[t].pc = "second"
    /\ threads'[t].pc = "unlock"

\* the entry under the key of the events
ResolveEntry(its) == Get(its, ResolvePid, ResolveFd)

\* C18: a close decoded concurrently with an fd_install of the same (pid, fd)
\* removes only the entry its own Get looked up: an entry put after that Get
\* and before the Delete stays in the tracker.
C18_CloseRemovesOnlyItsEntry ==
    [][\A t \in Threads :
          CloseDeletes(t) /\ ResolveEntry(items).ok
              /\ ~(decoding[t].got.ok /\ decoding[t].got.info = ResolveEntry(items).info)
          => /\ ResolveEntry(items').ok
             /\ ResolveEntry(items').info = ResolveEntry(items).info]_vars

\* what the code does: the Delete of a close removes whatever the key holds
C18_CloseRemovesAnyEntry ==
    [][\A t \in Threads : CloseDeletes(t) => ~ResolveEntry(items').ok]_vars

\* both calls have returned: the Get of the close had found no entry, the
\* fd_install has put file 1 under the key, and the tracker does not hold it
C18_Witness ==
    \E t \in Threads, u \in Threads :
        /\ decoding[t].step = "returned"
        /\ decoding[t].name = n_close
        /\ ~decoding[t].got.ok
        /\ decoding[u].step = "returned"
        /\ decoding[u].name = n_fd_install
        /\ decoding[u].lookup = LookupOk(PathOf(1))
        /\ decoding[u].file = 1
        /\ ~ResolveEntry(items).ok

=============================================================================
